---- MODULE Spec2Model ----
(***************************************************************************)
(* Model of image_rebuilder.py: the block-hash extent matcher               *)
(* (ImageProcessor.process_file), the reconstruction planner                *)
(* (generate_reconstruction_sequence), the offset mapper (OffsetMapper) and *)
(* the packager (generate_shell_wrapper).                                   *)
(*                                                                          *)
(* Byte strings are sequences of small naturals.  Offsets are 0-based as in *)
(* the source; sequences are 1-based, so byte x of data is data[x + 1].     *)
(***************************************************************************)
EXTENDS Integers, Sequences, FiniteSets, TLC

VARIABLES
    image,            \* contents of the image file
    image_size,       \* its size in bytes (stat().st_size)
    block_size,       \* ImageProcessor.block_size
    min_extent_size,  \* ImageProcessor.min_extent_size
    files,            \* contents of the files processed so far, in list order
    matches,          \* ImageProcessor.matches (the match pool)
    file_count,       \* ImageProcessor.file_count
    pc,               \* position of main: "processing", "done"
    sequence,         \* plan returned by generate_reconstruction_sequence
    image_ranges,     \* IMAGE ranges collected by generate_script
    directives,       \* copy directives rendered into the program, in order
    embedded,         \* embedded-bytes region streamed after the wrapper
    script_text,      \* script_text given to generate_shell_wrapper (code points)
    artifact,         \* bytes generate_shell_wrapper wrote to output_stream
    lookup_offset,    \* argument of OffsetMapper.map_offset
    mapped,           \* its outcome: [ok, value], ok = FALSE for ValueError
    hash_mod,         \* number of values the block hash takes
    current_block,    \* scan cursor of process_file
    match_result,     \* result of its last _find_extent_in_image call
    previous_block,   \* the cursor that call searched from (-1: no call yet)
    display_path,     \* argument of escape_for_shell_display (code points)
    escaped,          \* its result
    file_list,        \* the paths read_file_list yields, in order
    calls,            \* the paths process_file was called with, in order
    generate_calls,   \* number of generate_script calls started
    error,            \* exception that ended main's try block ("none": none)
    exit_status,      \* exit status of the process (-1: still running)
    input_stream,     \* characters the input stream of read_file_list delivers
    null_separated,   \* its null_separated argument
    extend_file_block,   \* file_start_block of a verify-and-extend call
    extend_image_block,  \* its image_start_block
    extend_result,    \* its result
    wrapper_script_bytes,  \* wrapper_script_bytes of generate_shell_wrapper
    patch_count,      \* number of times the placeholder was replaced
    copy_chunk_size,  \* its chunk_size argument
    range_index,      \* number of attachment ranges it has taken up
    range_remaining,  \* remaining of the range taken up last
    flushed           \* output_buffer.flush() was called

vars == <<image, image_size, block_size, min_extent_size, files, matches,
          file_count, pc, sequence, image_ranges, directives, embedded,
          script_text, artifact, lookup_offset, mapped, hash_mod,
          current_block, match_result, previous_block, display_path,
          escaped, file_list, calls, generate_calls, error, exit_status,
          input_stream, null_separated, extend_file_block, extend_image_block,
          extend_result, wrapper_script_bytes, patch_count, copy_chunk_size,
          range_index, range_remaining, flushed>>

wrapVars == <<script_text, artifact>>
mapVars == <<lookup_offset, mapped>>
scanVars == <<current_block, match_result, previous_block>>
escVars == <<display_path, escaped>>
mainVars == <<file_list, calls, generate_calls, error, exit_status>>
listVars == <<input_stream, null_separated>>
extendVars == <<extend_file_block, extend_image_block, extend_result>>
sinkVars == <<wrapper_script_bytes, patch_count, copy_chunk_size, range_index,
              range_remaining, flushed>>

(***************************************************************************)
(* Bounds of the model.                                                     *)
(***************************************************************************)
MaxImageLen == 4
MaxFileBytes == 4
HashMod == 7
MaxPlanImageSize == 4
MaxMatches == 2
MaxAttachLen == 3
MaxRanges == 2
MaxScriptChars == 1
MaxMapEnd == 5
MaxPathChars == 3
MaxPathLen == 6
MaxListLen == 3

Bytes == {0, 1}
BlockSizes == {1, 2}
FileList == <<"f1", "f2">>
FileStarts == {0, 1}

None == <<>>

\* process_file is not inside its scan loop
ScanIdle == current_block = 0 /\ match_result = None /\ previous_block = -1

\* no escape_for_shell_display call is under study
EscIdle == display_path = <<>> /\ escaped = <<>>

\* main has started nothing yet
MainIdle ==
    /\ calls = <<>>
    /\ generate_calls = 0
    /\ error = "none"
    /\ exit_status = -1

\* no read_file_list call is under study
ListIdle == input_stream = <<>> /\ null_separated = FALSE

\* no verify-and-extend call is under study
ExtendIdle ==
    /\ extend_file_block = 0
    /\ extend_image_block = 0
    /\ extend_result = None

\* generate_shell_wrapper is not followed statement by statement
SinkIdle ==
    /\ wrapper_script_bytes = <<>>
    /\ patch_count = 0
    /\ copy_chunk_size = 0
    /\ range_index = 0
    /\ range_remaining = 0
    /\ flushed = FALSE

IMAGE == "image"

Min(a, b) == IF a < b THEN a ELSE b
Max(a, b) == IF a > b THEN a ELSE b

SeqsUpTo(S, n) == UNION {[1..k -> S] : k \in 0..n}

\* data[start:end] of Python: clipped to the data's length.
Slice(data, start, end) ==
    IF start >= Min(end, Len(data)) THEN <<>>
    ELSE SubSeq(data, start + 1, Min(end, Len(data)))

\* f.seek(pos); f.read(n)
ReadAt(data, pos, n) == Slice(data, pos, pos + n)

(***************************************************************************)
(* Block hasher.  mmh3.hash is a deterministic function of the block's      *)
(* bytes with a finite range (2^32 values).  Here the block is read as a    *)
(* number (one digit per byte, so distinct blocks give distinct numbers)    *)
(* and reduced to hash_mod values, so that equal blocks have equal hashes   *)
(* and some distinct blocks collide.  Which blocks collide is a property    *)
(* of the hash function that a run cannot choose: hash_mod is fixed at the  *)
(* start, either HashMod (few collisions) or 1 (all blocks collide, the     *)
(* search is then decided by byte verification alone).                      *)
(***************************************************************************)
HashMods == {1, HashMod}

RECURSIVE BlockCode(_)
BlockCode(block) ==
    IF block = <<>> THEN 0
    ELSE BlockCode(SubSeq(block, 1, Len(block) - 1)) * (Cardinality(Bytes) + 1)
         + (block[Len(block)] + 1)

Hash(block) == BlockCode(block) % hash_mod

RECURSIVE HashesFrom(_, _, _)
HashesFrom(data, bs, pos) ==
    LET block == ReadAt(data, pos, bs)
    IN  IF block = <<>> THEN <<>>
        ELSE <<Hash(block)>> \o HashesFrom(data, bs, pos + bs)

\* _generate_hashes_for_file
GenerateHashesForFile(data, bs) == HashesFrom(data, bs, 0)

\* ImageProcessor.__init__: min_extent_blocks
MinExtentBlocks(mes, bs) == Max(1, mes \div bs)

(***************************************************************************)
(* Verify and extend.                                                       *)
(***************************************************************************)
chunk_size == 65536

\* index of the first j with j >= len(image_chunk) or
\* file_chunk[j] != image_chunk[j]; -1 when the loop over j ends normally
FirstMismatch(file_chunk, image_chunk) ==
    LET bad == {j \in 0..(Len(file_chunk) - 1) :
                    \/ j >= Len(image_chunk)
                    \/ file_chunk[j + 1] # image_chunk[j + 1]}
    IN  IF bad = {} THEN -1
        ELSE CHOOSE j \in bad : \A k \in bad : j <= k

\* the while loop of _extend_match_forward_at_offset: final bytes_matched
RECURSIVE CompareLoop(_, _, _, _, _, _)
CompareLoop(file, img, file_offset, image_offset, max_bytes, bytes_matched) ==
    IF bytes_matched >= max_bytes THEN bytes_matched
    ELSE LET bytes_to_read == Min(chunk_size, max_bytes - bytes_matched)
             file_chunk == ReadAt(file, file_offset + bytes_matched, bytes_to_read)
             image_chunk == ReadAt(img, image_offset + bytes_matched, bytes_to_read)
             j == FirstMismatch(file_chunk, image_chunk)
         IN  IF j # -1 THEN bytes_matched + j
             ELSE IF Len(file_chunk) < bytes_to_read
                  THEN bytes_matched + Len(file_chunk)
                  ELSE CompareLoop(file, img, file_offset, image_offset,
                                   max_bytes, bytes_matched + Len(file_chunk))

\* a variant that counts whole blocks only
EndBlockRoundedDown(total_bytes, bs) == total_bytes \div bs

\* round up to include any partial block
EndBlock(total_bytes, bs) == (total_bytes + bs - 1) \div bs

\* a variant that accepts any extent of one block or more
MeetsMinimumOneBlock(file_end_block, file_start_block, min_extent_blocks) ==
    file_end_block - file_start_block >= 1

\* the minimum extent requirement
MeetsMinimum(file_end_block, file_start_block, min_extent_blocks) ==
    file_end_block - file_start_block >= min_extent_blocks

\* _extend_match_forward_at_offset: <<file_end_block, image_end_block>> or None
ExtendMatchForwardAtOffset(file, img, bs, file_start_block, image_start_block, min_extent_blocks) ==
    LET file_offset == file_start_block * bs
        image_offset == image_start_block * bs
        max_file_bytes == Len(file) - file_offset
        max_image_bytes == Len(img) - image_offset
    IN  IF max_file_bytes <= 0 \/ max_image_bytes <= 0 THEN None
        ELSE LET max_bytes == Min(max_file_bytes, max_image_bytes)
                 bytes_matched == CompareLoop(file, img, file_offset,
                                              image_offset, max_bytes, 0)
                 file_end_block == EndBlock(file_offset + bytes_matched, bs)
                 image_end_block == EndBlock(image_offset + bytes_matched, bs)
             IN  IF MeetsMinimum(file_end_block, file_start_block,
                                 min_extent_blocks)
                 THEN <<file_end_block, image_end_block>>
                 ELSE None

(***************************************************************************)
(* Extent search.                                                           *)
(***************************************************************************)
\* a variant that gives up at the first position whose verification fails
RECURSIVE SearchUntilFailedVerification(_, _, _, _, _, _, _, _)
SearchUntilFailedVerification(file, img, bs, file_hashes, image_hashes, extent_blocks, file_start_block, i) ==
    IF i > Len(image_hashes) - extent_blocks THEN None
    ELSE LET extent == SubSeq(file_hashes, file_start_block + 1,
                               file_start_block + extent_blocks)
             result == ExtendMatchForwardAtOffset(file, img, bs,
                           file_start_block, i, extent_blocks)
         IN  IF SubSeq(image_hashes, i + 1, i + extent_blocks) = extent
             THEN IF result # None
                  THEN <<file_start_block, result[1], i, result[2]>>
                  ELSE None
             ELSE SearchUntilFailedVerification(file, img, bs, file_hashes,
                      image_hashes, extent_blocks, file_start_block, i + 1)

\* the for loop of _find_extent_in_image from image position i on
RECURSIVE SearchImageFrom(_, _, _, _, _, _, _, _)
SearchImageFrom(file, img, bs, file_hashes, image_hashes, extent_blocks, file_start_block, i) ==
    IF i > Len(image_hashes) - extent_blocks THEN None
    ELSE LET extent == SubSeq(file_hashes, file_start_block + 1,
                               file_start_block + extent_blocks)
             result == ExtendMatchForwardAtOffset(file, img, bs,
                           file_start_block, i, extent_blocks)
         IN  IF SubSeq(image_hashes, i + 1, i + extent_blocks) = extent
                /\ result # None
             THEN <<file_start_block, result[1], i, result[2]>>
             ELSE SearchImageFrom(file, img, bs, file_hashes, image_hashes,
                                  extent_blocks, file_start_block, i + 1)

\* a variant whose search starts at image block 1
FindExtentInImageFromOne(file, img, bs, file_hashes, image_hashes, extent_blocks, file_start_block) ==
    IF file_start_block + extent_blocks > Len(file_hashes) THEN None
    ELSE SearchImageFrom(file, img, bs, file_hashes, image_hashes,
                         extent_blocks, file_start_block, 1)

\* _find_extent_in_image
FindExtentInImage(file, img, bs, file_hashes, image_hashes, extent_blocks, file_start_block) ==
    IF file_start_block + extent_blocks > Len(file_hashes) THEN None
    ELSE SearchImageFrom(file, img, bs, file_hashes, image_hashes,
                         extent_blocks, file_start_block, 0)

\* a variant that records the image range in place of the file range
MatchTupleOfImageRange(path, r, bs) ==
    <<path, r[3] * bs, r[4] * bs, r[3] * bs, r[4] * bs>>

\* the tuple process_file appends for a match result
MatchTuple(path, r, bs) == <<path, r[1] * bs, r[2] * bs, r[3] * bs, r[4] * bs>>

\* a variant that retries one block further after a failed search
NextBlockByOne(from_block, found, meb) ==
    IF found # None THEN found[2] ELSE from_block + 1

\* a variant that stays where it is after a failed search
NextBlockStaysOnMiss(from_block, found, meb) ==
    IF found # None THEN found[2] ELSE from_block

\* the cursor after one iteration of the scan loop
NextBlock(from_block, found, meb) ==
    IF found # None THEN found[2] ELSE from_block + meb

\* the matches one iteration appends
Appended(path, found, bs) ==
    IF found # None THEN <<MatchTuple(path, found, bs)>> ELSE <<>>

\* the scan loop of process_file from from_block on: the matches appended
RECURSIVE ScanFile(_, _, _, _, _, _, _, _)
ScanFile(path, file, img, bs, meb, file_hashes, image_hashes, from_block) ==
    IF from_block >= Len(file_hashes) THEN <<>>
    ELSE LET found == FindExtentInImage(file, img, bs, file_hashes,
                          image_hashes, meb, from_block)
         IN  Appended(path, found, bs) \o
             ScanFile(path, file, img, bs, meb, file_hashes, image_hashes,
                      NextBlock(from_block, found, meb))

\* the matches process_file appends for one file
FileMatches(path, file, img, bs, mes) ==
    ScanFile(path, file, img, bs, MinExtentBlocks(mes, bs),
             GenerateHashesForFile(file, bs), GenerateHashesForFile(img, bs), 0)

(***************************************************************************)
(* Reconstruction planner: generate_reconstruction_sequence.                *)
(* A match is <<file_path, file_start, file_end, image_start, image_end>>.  *)
(***************************************************************************)
\* sort key (m[3], -m[4]) of the source: strict order of the keys
KeyLess(a, b) == a[4] < b[4] \/ (a[4] = b[4] /\ (0 - a[5]) < (0 - b[5]))

RECURSIVE InsertByKey(_, _)
InsertByKey(m, s) ==
    IF s = <<>> THEN <<m>>
    ELSE IF KeyLess(m, Head(s)) THEN <<m>> \o s
         ELSE <<Head(s)>> \o InsertByKey(m, Tail(s))

\* sorted(matches, key=...): Python's sort is stable, so matches with equal
\* keys keep their arrival order
RECURSIVE SortedMatches(_)
SortedMatches(ms) ==
    IF ms = <<>> THEN <<>>
    ELSE InsertByKey(ms[Len(ms)], SortedMatches(SubSeq(ms, 1, Len(ms) - 1)))

\* a variant that drops every match that overlaps the previous one
SkipMatchOnOverlap(m, last_end) == last_end > m[4]

\* if last_end >= image_end_byte: continue
SkipMatch(m, last_end) == last_end >= m[5]

\* a variant that advances the image start only
AdjustMatchImageOnly(m, last_end) ==
    IF last_end > m[4]
    THEN <<m[1], m[2], m[3], m[4] + (last_end - m[4]), m[5]>>
    ELSE m

\* a variant that advances the file start only
AdjustMatchFileOnly(m, last_end) ==
    IF last_end > m[4]
    THEN <<m[1], m[2] + (last_end - m[4]), m[3], m[4], m[5]>>
    ELSE m

\* the adjusted match recorded by the sweep
AdjustMatch(m, last_end) ==
    IF last_end > m[4]
    THEN LET offset == last_end - m[4]
         IN  <<m[1], m[2] + offset, m[3], m[4] + offset, m[5]>>
    ELSE m

RECURSIVE Deduplicate(_, _)
Deduplicate(sorted, last_end) ==
    IF sorted = <<>> THEN <<>>
    ELSE LET m == Head(sorted)
         IN  IF SkipMatch(m, last_end) THEN Deduplicate(Tail(sorted), last_end)
             ELSE <<AdjustMatch(m, last_end)>> \o Deduplicate(Tail(sorted), m[5])

\* a variant with <= for <: an empty gap gets an entry too
GapEntryOrEmpty(current_pos, image_start_byte) ==
    IF current_pos <= image_start_byte
    THEN << <<IMAGE, current_pos, image_start_byte>> >>
    ELSE <<>>

\* the IMAGE entry put before a match, if any
GapEntry(current_pos, image_start_byte) ==
    IF current_pos < image_start_byte
    THEN << <<IMAGE, current_pos, image_start_byte>> >>
    ELSE <<>>

\* the IMAGE entry put after the last match, if any
TailEntry(current_pos, size) ==
    IF current_pos < size THEN << <<IMAGE, current_pos, size>> >> ELSE <<>>

\* a variant that records the match under the image source and image range
FileEntryAsImage(m) == <<IMAGE, m[4], m[5]>>

\* the entry appended for the matched section from the file
FileEntry(m) == <<m[1], m[2], m[3]>>

RECURSIVE Stitch(_, _, _)
Stitch(dedup, current_pos, size) ==
    IF dedup = <<>> THEN TailEntry(current_pos, size)
    ELSE LET m == Head(dedup)
         IN  GapEntry(current_pos, m[4]) \o <<FileEntry(m)>> \o
             Stitch(Tail(dedup), m[5], size)

DeduplicatedMatches(ms) == Deduplicate(SortedMatches(ms), 0)

\* a variant without the early return for an empty match list
SequenceWithoutEmptyCase(ms, size) == Stitch(DeduplicatedMatches(ms), 0, size)

generate_reconstruction_sequence(ms, size) ==
    IF ms = <<>> THEN << <<IMAGE, 0, size>> >>
    ELSE Stitch(DeduplicatedMatches(ms), 0, size)

(***************************************************************************)
(* Offset mapper.                                                           *)
(***************************************************************************)
\* a variant that gives every segment the same concat_start
SegmentsNotAccumulated(ranges, concatenated_offset) ==
    [k \in 1..Len(ranges) |->
        <<ranges[k][1], ranges[k][2], concatenated_offset>>]

\* OffsetMapper.__init__: segments <<image_start, image_end, concat_start>>
RECURSIVE Segments(_, _)
Segments(ranges, concatenated_offset) ==
    IF ranges = <<>> THEN <<>>
    ELSE LET r == Head(ranges)
         IN  << <<r[1], r[2], concatenated_offset>> >> \o
             Segments(Tail(ranges), concatenated_offset + (r[2] - r[1]))

OffsetMapper(ranges) == Segments(ranges, 0)

\* a variant: bisect.bisect_left(a, x, lo, hi)
RECURSIVE BisectLeft(_, _, _, _)
BisectLeft(a, x, lo, hi) ==
    IF lo >= hi THEN lo
    ELSE LET mid == (lo + hi) \div 2
         IN  IF a[mid + 1] < x THEN BisectLeft(a, x, mid + 1, hi)
             ELSE BisectLeft(a, x, lo, mid)

\* bisect.bisect_right(a, x, lo, hi)
RECURSIVE BisectRight(_, _, _, _)
BisectRight(a, x, lo, hi) ==
    IF lo >= hi THEN lo
    ELSE LET mid == (lo + hi) \div 2
         IN  IF x < a[mid + 1] THEN BisectRight(a, x, lo, mid)
             ELSE BisectRight(a, x, mid + 1, hi)

ValueError == [ok |-> FALSE, value |-> 0]

\* OffsetMapper.map_offset: [ok, value]; ok = FALSE stands for ValueError
MapOffset(segments, image_offset) ==
    LET start_offsets == [k \in 1..Len(segments) |-> segments[k][1]]
        idx == BisectRight(start_offsets, image_offset, 0, Len(segments)) - 1
    IN  IF idx < 0 \/ idx >= Len(segments) THEN ValueError
        ELSE LET seg == segments[idx + 1]
             IN  IF image_offset < seg[1] \/ image_offset >= seg[2]
                 THEN ValueError
                 ELSE [ok |-> TRUE, value |-> seg[3] + (image_offset - seg[1])]

\* no map_offset call is under study
MapIdle == lookup_offset = 0 /\ mapped = ValueError

(***************************************************************************)
(* generate_script: IMAGE ranges, rendered copy directives, embedded data.  *)
(***************************************************************************)
\* first pass of generate_script: the IMAGE ranges of the plan, in order
RECURSIVE ImageRanges(_)
ImageRanges(plan) ==
    IF plan = <<>> THEN <<>>
    ELSE LET e == Head(plan)
         IN  (IF e[1] = IMAGE THEN << <<e[2], e[3]>> >> ELSE <<>>) \o
             ImageRanges(Tail(plan))

\* a variant that passes the image offset of an IMAGE entry on as it is
DirectiveWithImageOffset(e, segments) ==
    LET size == e[3] - e[2]
    IN  IF size = 0 THEN <<>>
        ELSE <<[cmd |-> IF e[1] = IMAGE THEN "copy_from_script"
                        ELSE "copy_from_file",
                source |-> e[1], offset |-> e[2], size |-> size]>>

\* the line _generate_reconstruction_script adds for one plan entry
\* (<<>> for an entry of size 0)
DirectiveFor(e, segments) ==
    LET size == e[3] - e[2]
    IN  IF size = 0 THEN <<>>
        ELSE IF e[1] = IMAGE
             THEN <<[cmd |-> "copy_from_script", source |-> IMAGE,
                     offset |-> MapOffset(segments, e[2]).value,
                     size |-> size]>>
             ELSE <<[cmd |-> "copy_from_file", source |-> e[1],
                     offset |-> e[2], size |-> size]>>

\* map_offset raises for some entry that is rendered
RenderRaises(plan, segments) ==
    \E k \in 1..Len(plan) :
        /\ plan[k][1] = IMAGE
        /\ plan[k][3] - plan[k][2] # 0
        /\ ~MapOffset(segments, plan[k][2]).ok

RECURSIVE RenderDirectives(_, _)
RenderDirectives(plan, segments) ==
    IF plan = <<>> THEN <<>>
    ELSE DirectiveFor(Head(plan), segments) \o
         RenderDirectives(Tail(plan), segments)

write_chunk_size == 16777216

\* the inner while loop of generate_shell_wrapper for one range, reading at
\* pos: [ok, data]; ok = FALSE stands for IOError (data: bytes written so far)
RECURSIVE CopyRange(_, _, _, _)
CopyRange(attach, pos, remaining, chunk) ==
    IF remaining <= 0 THEN [ok |-> TRUE, data |-> <<>>]
    ELSE LET data == ReadAt(attach, pos, Min(chunk, remaining))
         IN  IF data = <<>> THEN [ok |-> FALSE, data |-> <<>>]
             ELSE LET rest == CopyRange(attach, pos + Len(data),
                                        remaining - Len(data), chunk)
                  IN  [ok |-> rest.ok, data |-> data \o rest.data]

\* the loop over attachment_ranges of generate_shell_wrapper
RECURSIVE StreamRanges(_, _, _)
StreamRanges(attach, ranges, chunk) ==
    IF ranges = <<>> THEN [ok |-> TRUE, data |-> <<>>]
    ELSE LET r == Head(ranges)
             first == CopyRange(attach, r[1], r[2] - r[1], chunk)
         IN  IF ~first.ok THEN first
             ELSE LET rest == StreamRanges(attach, Tail(ranges), chunk)
                  IN  [ok |-> rest.ok, data |-> first.data \o rest.data]

(***************************************************************************)
(* Execution of the emitted program: _copy_generic copies count bytes of    *)
(* its source from skip_offset on and stops at the source's end of file.    *)
(* Offsets of copy_from_script are relative to data_offset, the start of    *)
(* the embedded region.                                                     *)
(***************************************************************************)
CopyGeneric(source, skip_offset, count) == ReadAt(source, skip_offset, count)

RECURSIVE RunDirectives(_, _, _)
RunDirectives(ds, fs, emb) ==
    IF ds = <<>> THEN <<>>
    ELSE LET d == Head(ds)
             source == IF d.cmd = "copy_from_script" THEN emb ELSE fs[d.source]
         IN  CopyGeneric(source, d.offset, d.size) \o
             RunDirectives(Tail(ds), fs, emb)

(***************************************************************************)
(* The program: main processes the listed files in order, then generates    *)
(* the script.                                                              *)
(***************************************************************************)
RECURSIVE TotalLen(_)
TotalLen(fs) == IF fs = <<>> THEN 0 ELSE Len(Head(fs)) + TotalLen(Tail(fs))

Init ==
    /\ image \in SeqsUpTo(Bytes, MaxImageLen)
    /\ image_size = Len(image)
    /\ block_size \in BlockSizes
    /\ min_extent_size \in 1..(2 * block_size)
    /\ hash_mod \in HashMods
    /\ ScanIdle
    /\ files = <<>>
    /\ matches = <<>>
    /\ file_count = 0
    /\ pc = "processing"
    /\ sequence = <<>>
    /\ image_ranges = <<>>
    /\ directives = <<>>
    /\ embedded = <<>>
    /\ script_text = <<>>
    /\ artifact = <<>>
    /\ MapIdle
    /\ EscIdle
    /\ file_list = <<>>
    /\ MainIdle
    /\ ListIdle
    /\ ExtendIdle
    /\ SinkIdle

\* one iteration of main's loop: process_file on the next listed path, whose
\* contents are drawn here
ProcessFile ==
    /\ pc = "processing"
    /\ file_count < Len(FileList)
    /\ \E data \in SeqsUpTo(Bytes, MaxFileBytes - TotalLen(files)) :
         LET path == FileList[file_count + 1]
         IN  /\ files' = Append(files, data)
             /\ matches' = matches \o
                    FileMatches(path, data, image, block_size, min_extent_size)
    /\ file_count' = file_count + 1
    /\ UNCHANGED <<listVars, extendVars, sinkVars,
                   image, image_size, block_size, min_extent_size, hash_mod,
                   pc, sequence, image_ranges, directives, embedded,
                   wrapVars, mapVars, scanVars, escVars, mainVars>>

\* ImageProcessor.generate_script
GenerateScript ==
    /\ pc = "processing"
    /\ LET plan == generate_reconstruction_sequence(matches, image_size)
           ranges == ImageRanges(plan)
           offset_mapping == OffsetMapper(ranges)
           streamed == StreamRanges(image, ranges, write_chunk_size)
       IN  /\ sequence' = plan
           /\ image_ranges' = ranges
           /\ IF RenderRaises(plan, offset_mapping)
              THEN /\ pc' = "failed"
                   /\ UNCHANGED <<directives, embedded>>
              ELSE /\ directives' = RenderDirectives(plan, offset_mapping)
                   /\ embedded' = streamed.data
                   /\ pc' = IF streamed.ok THEN "done" ELSE "failed"
    /\ generate_calls' = generate_calls + 1
    /\ error' = IF pc' = "failed" THEN "Exception" ELSE error
    /\ exit_status' = IF pc' = "failed" THEN 1 ELSE 0
    /\ UNCHANGED <<listVars, extendVars, sinkVars,
                   image, image_size, block_size, min_extent_size, hash_mod,
                   files, matches, file_count, wrapVars, mapVars, scanVars,
                   escVars, file_list, calls>>

Next == ProcessFile \/ GenerateScript

Spec == Init /\ [][Next]_vars

\* contents of the file at a path of FileList
FileIndex(path) == CHOOSE k \in 1..Len(FileList) : FileList[k] = path
FileData(path) == files[FileIndex(path)]
FilesByPath == [p \in {FileList[k] : k \in 1..Len(files)} |-> FileData(p)]

\* the bytes the emitted program writes
Reconstructed == RunDirectives(directives, FilesByPath, embedded)

(***************************************************************************)
(* Properties of the matcher and of the end-to-end pipeline (Spec).         *)
(***************************************************************************)
ValidConfig == block_size > 0 /\ min_extent_size > 0
               /\ min_extent_size % block_size = 0

MatchIndices == 1..Len(matches)

\* C1: for every image, file list and configuration with min_extent_size a
\* positive multiple of block_size, executing the emitted copy directives in
\* order writes exactly the image (same length, same byte at every offset).
C1_ReconstructionReproducesImage ==
    (pc = "done" /\ ValidConfig) => Reconstructed = image

\* C2: every match in the pool names a file range and an image range that
\* hold the same bytes.
C2_MatchBytesEqual ==
    \A k \in MatchIndices :
        LET m == matches[k]
        IN  Slice(FileData(m[1]), m[2], m[3]) = Slice(image, m[4], m[5])

\* C3: every match in the pool has file_end > file_start, image_end >
\* image_start and spans of equal length, and, when min_extent_size is a
\* positive multiple of block_size, a span of at least min_extent_size bytes.
C3_MatchShape ==
    \A k \in MatchIndices :
        LET m == matches[k]
        IN  /\ m[3] > m[2]
            /\ m[5] > m[4]
            /\ m[3] - m[2] = m[5] - m[4]
            /\ ValidConfig => m[5] - m[4] >= min_extent_size

\* a match found through two or more blocks of min_extent, at a later image
\* position, under a configuration that is a positive multiple
C3_Witness ==
    /\ ValidConfig
    /\ min_extent_size = 2 * block_size
    /\ \E k \in MatchIndices : matches[k][4] > 0 /\ matches[k][2] > 0

RECURSIVE PlanLength(_)
PlanLength(plan) ==
    IF plan = <<>> THEN 0
    ELSE (Head(plan)[3] - Head(plan)[2]) + PlanLength(Tail(plan))

\* C4: the lengths of the entries of the plan built from the match pool sum
\* to image_size.
C4_PlanLengthsSumToImageSize ==
    pc = "done" => PlanLength(sequence) = image_size

(***************************************************************************)
(* The planner as a pure function (SpecPlan): generate_reconstruction_-     *)
(* sequence applied to any list of well-formed matches, in any order.       *)
(* A well-formed match has spans of equal length and                        *)
(* 0 <= image_start < image_end <= image_size.                              *)
(***************************************************************************)
PlanPaths == {FileList[k] : k \in 1..Len(FileList)}

WellFormedMatches(size) ==
    {m \in {<<p, fs, fs + (ie - is), is, ie>> :
                p \in PlanPaths, fs \in FileStarts,
                is \in 0..size, ie \in 0..size} : m[4] < m[5]}

InitPlan ==
    /\ image_size \in 0..MaxPlanImageSize
    /\ matches \in SeqsUpTo(WellFormedMatches(image_size), MaxMatches)
    /\ pc = "planning"
    /\ sequence = <<>>
    /\ image = <<>>
    /\ block_size = 1
    /\ min_extent_size = 1
    /\ hash_mod = HashMod
    /\ ScanIdle
    /\ files = <<>>
    /\ file_count = 0
    /\ image_ranges = <<>>
    /\ directives = <<>>
    /\ embedded = <<>>
    /\ script_text = <<>>
    /\ artifact = <<>>
    /\ MapIdle
    /\ EscIdle
    /\ file_list = <<>>
    /\ MainIdle
    /\ ListIdle
    /\ ExtendIdle
    /\ SinkIdle

\* the call generate_reconstruction_sequence(matches, image_size)
PlanSequence ==
    /\ pc = "planning"
    /\ sequence' = generate_reconstruction_sequence(matches, image_size)
    /\ pc' = "planned"
    /\ UNCHANGED <<listVars, extendVars, sinkVars,
                   image, image_size, block_size, min_extent_size, hash_mod,
                   files, matches, file_count, image_ranges, directives, embedded,
                   wrapVars, mapVars, scanVars, escVars, mainVars>>

NextPlan == PlanSequence

SpecPlan == InitPlan /\ [][NextPlan]_vars

PlanIndices == 1..Len(sequence)

\* image offset at which plan entry k starts when the entries are written
\* one after the other
RECURSIVE EntryStart(_, _)
EntryStart(plan, k) ==
    IF k = 1 THEN 0
    ELSE EntryStart(plan, k - 1) + (plan[k - 1][3] - plan[k - 1][2])

IsImageEntry(e) == e[1] = IMAGE

Covered(x) == \E k \in MatchIndices : matches[k][4] <= x /\ x < matches[k][5]

\* C5: no plan holds two consecutive IMAGE entries.
C5_NoConsecutiveImageEntries ==
    pc = "planned" =>
        \A k \in PlanIndices :
            k < Len(sequence) =>
                ~(IsImageEntry(sequence[k]) /\ IsImageEntry(sequence[k + 1]))

\* a plan with two IMAGE entries, separated by file entries
C5_Witness ==
    /\ pc = "planned"
    /\ Cardinality({k \in PlanIndices : IsImageEntry(sequence[k])}) >= 2

\* C6 as claimed: no plan holds an IMAGE entry of zero length.
C6_NoEmptyImageEntry ==
    pc = "planned" =>
        \A k \in PlanIndices :
            IsImageEntry(sequence[k]) => sequence[k][3] # sequence[k][2]

\* C6 as amended: an IMAGE entry of zero length occurs only in the plan
\* <<IMAGE, 0, 0>> returned for no matches and image_size = 0.
C6_EmptyImageEntryOnlyForEmptyImage ==
    pc = "planned" =>
        \A k \in PlanIndices :
            (IsImageEntry(sequence[k]) /\ sequence[k][3] = sequence[k][2]) =>
                /\ matches = <<>>
                /\ image_size = 0
                /\ sequence = << <<IMAGE, 0, 0>> >>

\* a plan in which a match starts at offset 0 and another match starts where
\* the previous one ends: the places where an empty gap could be recorded
C6_Witness ==
    /\ pc = "planned"
    /\ Len(matches) >= 2
    /\ \E k \in PlanIndices :
          /\ k < Len(sequence)
          /\ ~IsImageEntry(sequence[k])
          /\ ~IsImageEntry(sequence[k + 1])
    /\ ~IsImageEntry(sequence[1])
    /\ IsImageEntry(sequence[Len(sequence)])

\* C7: for well-formed matches the plan's entries, in order, stand for
\* consecutive image ranges from 0 to image_size: an IMAGE entry (s, e)
\* starts where the previous entry ended, and a file entry (path, s, e)
\* standing for [x, x + e - s) is the restriction of an input match of that
\* path to this range (same file-to-image displacement, inside the match's
\* spans), so its bytes equal the image's whenever the match's bytes do.
C7_PlanCoversImageOnce ==
    pc = "planned" =>
        /\ \A k \in PlanIndices :
            LET e == sequence[k]
                x == EntryStart(sequence, k)
            IN  /\ e[3] >= e[2]
                /\ IsImageEntry(e) => e[2] = x
                /\ ~IsImageEntry(e) =>
                      \E j \in MatchIndices :
                          LET m == matches[j]
                          IN  /\ m[1] = e[1]
                              /\ m[2] <= e[2] /\ e[3] <= m[3]
                              /\ m[4] <= x /\ x + (e[3] - e[2]) <= m[5]
                              /\ e[2] - m[2] = x - m[4]
        /\ PlanLength(sequence) = image_size

\* a plan in which a match was trimmed (its file entry starts after the
\* match's file_start) and image data fills a gap
C7_Witness ==
    /\ pc = "planned"
    /\ \E k \in PlanIndices : IsImageEntry(sequence[k])
    /\ \E k \in PlanIndices :
          /\ ~IsImageEntry(sequence[k])
          /\ \A j \in MatchIndices :
                matches[j][1] = sequence[k][1] => matches[j][2] < sequence[k][2]

\* C8: an image offset is supplied by an IMAGE entry exactly when no match
\* covers it, and every covered offset is supplied by a file entry.
C8_ImageEntriesAreTheUncoveredOffsets ==
    pc = "planned" =>
        \A x \in 0..(image_size - 1) :
            /\ (\E k \in PlanIndices :
                    /\ IsImageEntry(sequence[k])
                    /\ sequence[k][2] <= x /\ x < sequence[k][3])
               <=> ~Covered(x)
            /\ Covered(x) =>
                  \E k \in PlanIndices :
                      /\ ~IsImageEntry(sequence[k])
                      /\ EntryStart(sequence, k) <= x
                      /\ x < EntryStart(sequence, k)
                             + (sequence[k][3] - sequence[k][2])

\* a plan for two partially overlapping matches with uncovered offsets left
C8_Witness ==
    /\ pc = "planned"
    /\ \E x \in 0..(image_size - 1) : ~Covered(x)
    /\ \E j, k \in MatchIndices :
          /\ matches[j][4] < matches[k][4]
          /\ matches[k][4] < matches[j][5]
          /\ matches[j][5] < matches[k][5]

Reorderings(ms) ==
    {[i \in 1..Len(ms) |-> ms[perm[i]]] : perm \in Permutations(1..Len(ms))}

\* C9: the plan depends only on the set of matches: every reordering of the
\* match list gives the same plan.
C9_PlanIndependentOfArrivalOrder ==
    pc = "planned" =>
        \A ms \in Reorderings(matches) :
            generate_reconstruction_sequence(ms, image_size) = sequence

(***************************************************************************)
(* Script packager: generate_shell_wrapper.  script_text is a sequence of   *)
(* Unicode code points; the wrapper and the artifact are byte sequences.    *)
(***************************************************************************)
\* str.encode('utf-8') of one code point
Utf8(cp) ==
    IF cp < 128 THEN <<cp>>
    ELSE IF cp < 2048 THEN <<192 + (cp \div 64), 128 + (cp % 64)>>
    ELSE IF cp < 65536
         THEN <<224 + (cp \div 4096), 128 + ((cp \div 64) % 64), 128 + (cp % 64)>>
         ELSE <<240 + (cp \div 262144), 128 + ((cp \div 4096) % 64),
                128 + ((cp \div 64) % 64), 128 + (cp % 64)>>

RECURSIVE EncodeUtf8(_)
EncodeUtf8(text) ==
    IF text = <<>> THEN <<>> ELSE Utf8(Head(text)) \o EncodeUtf8(Tail(text))

\* b'data_offset='
DataOffsetKey == <<100, 97, 116, 97, 95, 111, 102, 102, 115, 101, 116, 61>>

\* b'data_offset=00000000000000000000'
placeholder == DataOffsetKey \o [k \in 1..20 |-> 48]

\* '#!/bin/sh\nset -e\n'
WrapperHead ==
    <<35, 33, 47, 98, 105, 110, 47, 115, 104, 10, 115, 101, 116, 32, 45, 101, 10>>

\* '\nscript_file="$0"\n\n# Embedded reconstruction script\n'
WrapperMiddle ==
    <<10, 115, 99, 114, 105, 112, 116, 95, 102, 105, 108, 101, 61, 34, 36, 48,
      34, 10, 10, 35, 32, 69, 109, 98, 101, 100, 100, 101, 100, 32, 114, 101,
      99, 111, 110, 115, 116, 114, 117, 99, 116, 105, 111, 110, 32, 115, 99,
      114, 105, 112, 116, 10>>

\* 'exit 0\n\n'
WrapperTail == <<101, 120, 105, 116, 32, 48, 10, 10>>

\* wrapper_script_bytes before patching
WrapperScriptBytes(text) ==
    WrapperHead \o placeholder \o WrapperMiddle \o EncodeUtf8(text) \o WrapperTail

\* a variant that measures the wrapper in characters
WrapperLengthInChars(text) ==
    Len(WrapperHead) + Len(placeholder) + Len(WrapperMiddle) + Len(text)
    + Len(WrapperTail)

\* data_offset = len(wrapper_script_bytes)
WrapperLength(text) == Len(WrapperScriptBytes(text))

\* str(n).encode('ascii') for n >= 0
RECURSIVE Decimal(_)
Decimal(n) ==
    IF n < 10 THEN <<48 + n>> ELSE Decimal(n \div 10) \o <<48 + (n % 10)>>

\* s.ljust(width): spaces added on the right, nothing cut
LJust(s, width) ==
    IF Len(s) >= width THEN s ELSE s \o [k \in 1..(width - Len(s)) |-> 32]

\* data.find(pat, i): 0-based index of the first occurrence at or after i,
\* -1 when there is none
RECURSIVE Find(_, _, _)
Find(data, pat, i) ==
    IF i + Len(pat) > Len(data) THEN -1
    ELSE IF SubSeq(data, i + 1, i + Len(pat)) = pat THEN i
         ELSE Find(data, pat, i + 1)

\* a variant that replaces every occurrence: data.replace(pat, rep)
RECURSIVE ReplaceEvery(_, _, _)
ReplaceEvery(data, pat, rep) ==
    LET i == Find(data, pat, 0)
    IN  IF i = -1 THEN data
        ELSE SubSeq(data, 1, i) \o rep \o
             ReplaceEvery(SubSeq(data, i + Len(pat) + 1, Len(data)), pat, rep)

\* data.replace(pat, rep, 1)
ReplaceFirst(data, pat, rep) ==
    LET i == Find(data, pat, 0)
    IN  IF i = -1 THEN data
        ELSE SubSeq(data, 1, i) \o rep \o SubSeq(data, i + Len(pat) + 1, Len(data))

\* b'data_offset=' + str(data_offset).ljust(20).encode('ascii')
Replacement(data_offset) == DataOffsetKey \o LJust(Decimal(data_offset), 20)

\* wrapper_script_bytes after the placeholder is patched
PatchedWrapper(text) ==
    ReplaceFirst(WrapperScriptBytes(text), placeholder,
                 Replacement(WrapperLength(text)))

(***************************************************************************)
(* generate_shell_wrapper on its own (SpecWrap): script texts with          *)
(* characters of 1 to 4 UTF-8 bytes, any list of attachment ranges, and an  *)
(* attachment file whose byte at offset x is x.                             *)
(***************************************************************************)
\* 'A' and the euro sign: 1 and 3 bytes in UTF-8
ScriptChars == {65, 8364}

\* short texts, and texts that hold the placeholder literal in the program
\* body, one of them between e-acute (2 bytes) and an emoji (4 bytes)
ScriptTexts ==
    SeqsUpTo(ScriptChars, MaxScriptChars)
    \cup {placeholder, <<233>> \o placeholder \o <<128512, 10>>}

ChunkSizes == {1, 2, write_chunk_size}

Ramp(n) == [k \in 1..n |-> k - 1]

RangesUpTo(n) == {r \in (0..n) \X (0..n) : r[1] <= r[2]}

InitWrap ==
    /\ image \in {Ramp(0), Ramp(MaxAttachLen)}
    /\ image_size = Len(image)
    /\ image_ranges \in SeqsUpTo(RangesUpTo(Len(image) + 1), MaxRanges)
    /\ script_text \in ScriptTexts
    /\ artifact = <<>>
    /\ pc = "wrapping"
    /\ block_size = 1
    /\ min_extent_size = 1
    /\ hash_mod = HashMod
    /\ ScanIdle
    /\ files = <<>>
    /\ matches = <<>>
    /\ file_count = 0
    /\ sequence = <<>>
    /\ directives = <<>>
    /\ embedded = <<>>
    /\ MapIdle
    /\ EscIdle
    /\ file_list = <<>>
    /\ MainIdle
    /\ ListIdle
    /\ ExtendIdle
    /\ SinkIdle

\* generate_shell_wrapper(script_text, image_ranges, image, output, chunk)
GenerateShellWrapper ==
    /\ pc = "wrapping"
    /\ \E chunk \in ChunkSizes :
         LET streamed == StreamRanges(image, image_ranges, chunk)
         IN  /\ artifact' = PatchedWrapper(script_text) \o streamed.data
             /\ pc' = IF streamed.ok THEN "wrapped" ELSE "failed"
    /\ UNCHANGED <<listVars, extendVars, sinkVars,
                   image, image_size, block_size, min_extent_size, hash_mod,
                   files, matches, file_count, sequence, image_ranges, directives,
                   embedded, script_text, mapVars, scanVars, escVars, mainVars>>

NextWrap == GenerateShellWrapper

SpecWrap == InitWrap /\ [][NextWrap]_vars

\* the number the shell reads from the first data_offset= assignment of the
\* artifact: the decimal digits that follow the key
RECURSIVE DigitsValue(_, _, _)
DigitsValue(data, i, acc) ==
    IF i < Len(data) /\ data[i + 1] \in 48..57
    THEN DigitsValue(data, i + 1, acc * 10 + (data[i + 1] - 48))
    ELSE acc

HeaderNumber(data) ==
    DigitsValue(data, Find(data, DataOffsetKey, 0) + Len(DataOffsetKey), 0)

\* image[start:end] of every range, one after the other
RECURSIVE ConcatRanges(_, _)
ConcatRanges(data, ranges) ==
    IF ranges = <<>> THEN <<>>
    ELSE SubSeq(data, Head(ranges)[1] + 1, Head(ranges)[2]) \o
         ConcatRanges(data, Tail(ranges))

\* ranges shaped like the IMAGE segments of a plan: non-empty, ascending,
\* not overlapping
PlanShaped(ranges) ==
    \A k \in 1..Len(ranges) :
        /\ ranges[k][1] < ranges[k][2]
        /\ k < Len(ranges) => ranges[k][2] <= ranges[k + 1][1]

\* C10: the number patched into the header is the UTF-8 byte length of the
\* wrapper; from that offset on the artifact is the concatenation of the
\* attachment ranges in list order; hence for every offset x of an IMAGE
\* segment the artifact's byte at data_offset + map_offset(x) is image byte x.
C10_DataOffsetPointsAtEmbeddedData ==
    pc = "wrapped" =>
        LET data_offset == HeaderNumber(artifact)
        IN  /\ data_offset = Len(WrapperScriptBytes(script_text))
            /\ data_offset <= Len(artifact)
            /\ SubSeq(artifact, data_offset + 1, Len(artifact))
                 = ConcatRanges(image, image_ranges)
            /\ PlanShaped(image_ranges) =>
                  \A k \in 1..Len(image_ranges) :
                      \A x \in image_ranges[k][1]..(image_ranges[k][2] - 1) :
                          LET at == MapOffset(OffsetMapper(image_ranges), x)
                          IN  /\ at.ok
                              /\ artifact[data_offset + at.value + 1]
                                   = image[x + 1]

\* an artifact with multi-byte characters in the program text and two
\* separate IMAGE segments
C10_Witness ==
    /\ pc = "wrapped"
    /\ \E k \in 1..Len(script_text) : script_text[k] > 127
    /\ Len(image_ranges) = 2
    /\ PlanShaped(image_ranges)
    /\ image_ranges[1][2] < image_ranges[2][1]

\* positions (1-based) of the header's placeholder in the wrapper
HeaderSlot == (Len(WrapperHead) + 1)..(Len(WrapperHead) + Len(placeholder))

\* C11: patching replaces only the header's occurrence of the placeholder:
\* the wrapper written to the artifact has the length of the unpatched
\* wrapper, the header slot holds data_offset= and the left-justified number,
\* and every byte outside the header slot, a later occurrence of the literal
\* in the program body included, is the unpatched wrapper's byte.
C11_PatchReplacesHeaderPlaceholderOnly ==
    pc \in {"wrapped", "failed"} =>
        LET unpatched == WrapperScriptBytes(script_text)
            n == Len(unpatched)
        IN  /\ Len(artifact) >= n
            /\ pc = "wrapped" =>
                  Len(artifact) = n + Len(ConcatRanges(image, image_ranges))
            /\ \A i \in 1..n : i \notin HeaderSlot => artifact[i] = unpatched[i]
            /\ SubSeq(unpatched, Len(WrapperHead) + 1,
                      Len(WrapperHead) + Len(placeholder)) = placeholder
            /\ SubSeq(artifact, Len(WrapperHead) + 1,
                      Len(WrapperHead) + Len(placeholder))
                 = DataOffsetKey \o Decimal(n)
                   \o [k \in 1..(20 - Len(Decimal(n))) |-> 32]
            /\ \A i \in 0..(n - Len(placeholder)) :
                  (i >= Len(WrapperHead) + Len(placeholder)
                   /\ SubSeq(unpatched, i + 1, i + Len(placeholder)) = placeholder)
                  => SubSeq(artifact, i + 1, i + Len(placeholder)) = placeholder

\* an artifact whose program body holds the placeholder literal after a
\* multi-byte character
C11_Witness ==
    /\ pc = "wrapped"
    /\ Len(script_text) > Len(placeholder)
    /\ script_text[1] > 127
    /\ Find(EncodeUtf8(script_text), placeholder, 0) > 0
    /\ Find(artifact, placeholder, 0) > Len(WrapperHead) + Len(placeholder)

(***************************************************************************)
(* The offset mapper on its own (SpecMap): OffsetMapper built from any      *)
(* list of ranges in plan order (ascending, not overlapping) and one        *)
(* map_offset call on any offset.                                           *)
(***************************************************************************)
InPlanOrder(ranges) ==
    \A k \in 1..Len(ranges) :
        /\ ranges[k][1] <= ranges[k][2]
        /\ k < Len(ranges) => ranges[k][2] <= ranges[k + 1][1]

SegmentLists ==
    {rs \in SeqsUpTo(RangesUpTo(MaxMapEnd), MaxRanges) : InPlanOrder(rs)}

InitMap ==
    /\ image_ranges \in SegmentLists
    /\ lookup_offset \in 0..(MaxMapEnd + 1)
    /\ mapped = ValueError
    /\ EscIdle
    /\ file_list = <<>>
    /\ MainIdle
    /\ ListIdle
    /\ ExtendIdle
    /\ SinkIdle
    /\ pc = "mapping"
    /\ image = <<>>
    /\ image_size = 0
    /\ block_size = 1
    /\ min_extent_size = 1
    /\ hash_mod = HashMod
    /\ ScanIdle
    /\ files = <<>>
    /\ matches = <<>>
    /\ file_count = 0
    /\ sequence = <<>>
    /\ directives = <<>>
    /\ embedded = <<>>
    /\ script_text = <<>>
    /\ artifact = <<>>

\* OffsetMapper(image_ranges).map_offset(lookup_offset)
MapOffsetCall ==
    /\ pc = "mapping"
    /\ mapped' = MapOffset(OffsetMapper(image_ranges), lookup_offset)
    /\ pc' = "mapped"
    /\ UNCHANGED <<listVars, extendVars, sinkVars,
                   image, image_size, block_size, min_extent_size, hash_mod,
                   files, matches, file_count, sequence, image_ranges, directives,
                   embedded, wrapVars, lookup_offset, scanVars, escVars, mainVars>>

NextMap == MapOffsetCall

SpecMap == InitMap /\ [][NextMap]_vars

\* x lies in range k
InRange(ranges, k, x) == ranges[k][1] <= x /\ x < ranges[k][2]

\* sum of the lengths of the ranges before range k
RECURSIVE LengthBefore(_, _)
LengthBefore(ranges, k) ==
    IF k = 1 THEN 0
    ELSE LengthBefore(ranges, k - 1) + (ranges[k - 1][2] - ranges[k - 1][1])

\* C12: map_offset(x) returns cumulative_offset + (x - image_start) of the
\* segment that holds x, cumulative_offset being the total length of the
\* earlier segments, and raises ValueError when no segment holds x (before
\* the first, in a gap, at an exclusive end, after the last, no segments).
C12_MapOffsetValueOrValueError ==
    pc = "mapped" =>
        /\ \A k \in 1..Len(image_ranges) :
              InRange(image_ranges, k, lookup_offset) =>
                  /\ mapped.ok
                  /\ mapped.value = LengthBefore(image_ranges, k)
                                    + (lookup_offset - image_ranges[k][1])
        /\ (\A k \in 1..Len(image_ranges) :
                ~InRange(image_ranges, k, lookup_offset)) => ~mapped.ok

\* a lookup at the first offset of a second segment that follows a gap
C12_Witness ==
    /\ pc = "mapped"
    /\ mapped.ok
    /\ Len(image_ranges) = 2
    /\ image_ranges[1][1] < image_ranges[1][2]
    /\ image_ranges[1][2] < image_ranges[2][1]
    /\ lookup_offset = image_ranges[2][1]

\* the offsets that lie inside some segment
SegmentOffsets(ranges) ==
    {x \in 0..MaxMapEnd : \E k \in 1..Len(ranges) : InRange(ranges, k, x)}

\* C13: for a <= b inside segments map_offset(a) <= map_offset(b), equal
\* only for a = b, and the mapped offsets count 0, 1, 2, ... over the union
\* of the segments: the least offset maps to 0 and the next offset of the
\* union after a maps to map_offset(a) + 1.
C13_MapOffsetIsMonotoneAndDense ==
    (pc = "mapped" /\ lookup_offset \in SegmentOffsets(image_ranges)) =>
        LET inside == SegmentOffsets(image_ranges)
            map(x) == MapOffset(OffsetMapper(image_ranges), x)
            a == lookup_offset
        IN  /\ mapped.ok
            /\ \A b \in inside :
                  /\ map(b).ok
                  /\ a <= b => mapped.value <= map(b).value
                  /\ (a <= b /\ mapped.value = map(b).value) => a = b
                  /\ (a < b /\ \A c \in inside : ~(a < c /\ c < b))
                       => map(b).value = mapped.value + 1
            /\ (\A c \in inside : a <= c) => mapped.value = 0

\* a lookup of the last offset of a first segment, with a later segment
\* after a gap
C13_Witness ==
    /\ pc = "mapped"
    /\ mapped.ok
    /\ Len(image_ranges) = 2
    /\ image_ranges[1][1] > 0
    /\ lookup_offset = image_ranges[1][2] - 1
    /\ image_ranges[1][2] < image_ranges[2][1]
    /\ image_ranges[2][1] < image_ranges[2][2]

(***************************************************************************)
(* The scan loop of process_file, one iteration per step (SpecScan): one    *)
(* file, already validated and hashed, is scanned against the image.        *)
(***************************************************************************)
InitScan ==
    /\ image \in SeqsUpTo(Bytes, MaxImageLen)
    /\ image_size = Len(image)
    /\ block_size \in BlockSizes
    /\ min_extent_size \in 1..(2 * block_size)
    /\ hash_mod \in HashMods
    /\ files \in {<<data>> : data \in SeqsUpTo(Bytes, MaxFileBytes)}
    /\ matches = <<>>
    /\ file_count = 0
    /\ current_block = 0
    /\ match_result = None
    /\ previous_block = -1
    /\ pc = "scanning"
    /\ sequence = <<>>
    /\ image_ranges = <<>>
    /\ directives = <<>>
    /\ embedded = <<>>
    /\ script_text = <<>>
    /\ artifact = <<>>
    /\ MapIdle
    /\ EscIdle
    /\ file_list = <<>>
    /\ MainIdle
    /\ ListIdle
    /\ ExtendIdle
    /\ SinkIdle

\* the file under scan and the two hash arrays
ScannedFile == files[1]
FileHashes == GenerateHashesForFile(ScannedFile, block_size)
ImageHashes == GenerateHashesForFile(image, block_size)
min_extent_blocks == MinExtentBlocks(min_extent_size, block_size)

\* one iteration of the while loop of process_file
ScanStep ==
    /\ pc = "scanning"
    /\ current_block < Len(FileHashes)
    /\ \E found \in {FindExtentInImage(ScannedFile, image, block_size,
                           FileHashes, ImageHashes, min_extent_blocks,
                           current_block)} :
           /\ match_result' = found
           /\ matches' = matches \o Appended(FileList[1], found, block_size)
           /\ current_block' = NextBlock(current_block, found, min_extent_blocks)
    /\ previous_block' = current_block
    /\ UNCHANGED <<listVars, extendVars, sinkVars,
                   image, image_size, block_size, min_extent_size, hash_mod,
                   files, file_count, pc, sequence, image_ranges, directives,
                   embedded, wrapVars, mapVars, escVars, mainVars>>

\* the loop ends and process_file counts the file
FinishFile ==
    /\ pc = "scanning"
    /\ current_block >= Len(FileHashes)
    /\ file_count' = file_count + 1
    /\ pc' = "scanned"
    /\ UNCHANGED <<listVars, extendVars, sinkVars,
                   image, image_size, block_size, min_extent_size, hash_mod,
                   files, matches, sequence, image_ranges, directives,
                   embedded, wrapVars, mapVars, scanVars, escVars, mainVars>>

NextScan == ScanStep \/ FinishFile

SpecScan == InitScan /\ [][NextScan]_vars

\* the steps of the loop append what process_file as a whole appends
ScanAgreesWithProcessFile ==
    pc = "scanned" =>
        matches = FileMatches(FileList[1], ScannedFile, image, block_size,
                              min_extent_size)

\* the image block positions the search visits
ImagePositions == 0..(Len(ImageHashes) - min_extent_blocks)

\* the min_extent_blocks hashes at file block c and at image block i agree
HashesEqual(c, i) ==
    /\ c + min_extent_blocks <= Len(FileHashes)
    /\ i \in ImagePositions
    /\ SubSeq(FileHashes, c + 1, c + min_extent_blocks)
         = SubSeq(ImageHashes, i + 1, i + min_extent_blocks)

\* the bytes of those blocks agree
BlocksEqual(c, i) ==
    Slice(ScannedFile, c * block_size, (c + min_extent_blocks) * block_size)
      = Slice(image, i * block_size, (i + min_extent_blocks) * block_size)

\* a search has just run, from previous_block
Searched == pc \in {"scanning", "scanned"} /\ previous_block >= 0

\* C14: a pair of positions whose hashes agree but whose blocks differ gets
\* no match; the search goes on to later image positions, so the match is
\* at the first position with equal hashes and equal blocks; and there is
\* no match for the file position when no image position has equal blocks.
C14_CollisionsAbsorbedByVerification ==
    Searched =>
        LET c == previous_block
            good == {i \in ImagePositions : HashesEqual(c, i) /\ BlocksEqual(c, i)}
        IN  /\ match_result # None => BlocksEqual(c, match_result[3])
            /\ good # {} =>
                  /\ match_result # None
                  /\ \A i \in good : match_result[3] <= i
            /\ good = {} => match_result = None

\* number of leading positions at which a and b hold the same byte
CommonPrefix(a, b) ==
    LET agree == {n \in 0..Min(Len(a), Len(b)) :
                     \A k \in 1..n : a[k] = b[k]}
    IN  CHOOSE n \in agree : \A m \in agree : m <= n

\* file block (exclusive) up to which the bytes from file block c and image
\* block i agree, a partial block counted as a block
AgreedEndBlock(c, i) ==
    LET n == CommonPrefix(Slice(ScannedFile, c * block_size, Len(ScannedFile)),
                          Slice(image, i * block_size, Len(image)))
    IN  ((c * block_size + n) + block_size - 1) \div block_size

\* byte verification succeeds for the pair: both positions hold bytes and
\* the agreeing bytes reach min_extent_blocks blocks
Verified(c, i) ==
    /\ c * block_size < Len(ScannedFile)
    /\ i * block_size < Len(image)
    /\ AgreedEndBlock(c, i) - c >= min_extent_blocks

\* C15: the match for a cursor position starts at the smallest image block
\* at which the hashes agree and byte verification succeeds, and is the
\* extent found there, whatever later image positions hold; there is no
\* match when there is no such image block.
C15_FirstVerifiedPositionWins ==
    Searched =>
        LET c == previous_block
            confirmed == {i \in ImagePositions :
                              HashesEqual(c, i) /\ Verified(c, i)}
        IN  IF confirmed = {} THEN match_result = None
            ELSE /\ match_result # None
                 /\ match_result[1] = c
                 /\ \A i \in confirmed : match_result[3] <= i
                 /\ match_result[3] \in confirmed
                 /\ match_result[2] = AgreedEndBlock(c, match_result[3])
                 /\ match_result[4] - match_result[3] = match_result[2] - c

\* a match at the first confirmed position while a later image position
\* holds a longer extent for the same cursor position
C15_Witness ==
    /\ Searched
    /\ match_result # None
    /\ \E i \in ImagePositions :
          /\ i > match_result[3]
          /\ HashesEqual(previous_block, i)
          /\ Verified(previous_block, i)
          /\ AgreedEndBlock(previous_block, i) > match_result[2]

\* file ranges of the matches appended so far, in order of appending
FileRangesDisjointAndIncreasing ==
    \A j, k \in MatchIndices :
        j < k => /\ matches[j][3] <= matches[k][2]
                 /\ matches[j][2] < matches[k][2]

\* C16: after a successful search the cursor is the match's file_end_block,
\* after a failed one it has advanced by min_extent_blocks; it never moves
\* backwards, so the file ranges of the file's matches are pairwise disjoint
\* and strictly increasing in file_start.
C16_CursorAdvance ==
    Searched =>
        /\ match_result # None => current_block = match_result[2]
        /\ match_result = None =>
              current_block = previous_block + min_extent_blocks
        /\ current_block > previous_block
        /\ match_result # None =>
              matches[Len(matches)]
                = <<FileList[1], previous_block * block_size,
                    current_block * block_size,
                    match_result[3] * block_size,
                    match_result[4] * block_size>>
        /\ FileRangesDisjointAndIncreasing

\* a scan that failed at one cursor position, with min_extent_blocks of two
\* or more, after an earlier match
C16_Witness ==
    /\ Searched
    /\ match_result = None
    /\ min_extent_blocks >= 2
    /\ previous_block > 0
    /\ Len(matches) >= 1

(***************************************************************************)
(* The pipeline without matches (Spec).                                     *)
(***************************************************************************)
\* C17: with no input file, or when no file yields a match, script
\* generation succeeds, the plan is exactly <<IMAGE, 0, image_size>>, the
\* embedded region is the complete image, and for image_size > 0 the only
\* copy directive reads image_size bytes at concatenated offset 0.
C17_NoMatchesEmbedsWholeImage ==
    (pc \in {"done", "failed"} /\ matches = <<>>) =>
        /\ pc = "done"
        /\ sequence = << <<IMAGE, 0, image_size>> >>
        /\ embedded = image
        /\ Len(embedded) = image_size
        /\ image_size > 0 =>
              directives = <<[cmd |-> "copy_from_script", source |-> IMAGE,
                              offset |-> 0, size |-> image_size]>>
        /\ image_size = 0 => directives = <<>>

\* a finished run over two non-empty files that yielded no match
C17_Witness ==
    /\ pc = "done"
    /\ matches = <<>>
    /\ file_count = 2
    /\ \A k \in 1..Len(files) : files[k] # <<>>
    /\ image_size > 0

(***************************************************************************)
(* escape_for_shell_display on its own (SpecEscape).  Strings are           *)
(* sequences of code points.                                                *)
(***************************************************************************)
SingleQuote == 39
DoubleQuote == 34
Backslash == 92
Dollar == 36
Backtick == 96
Space == 32
Newline == 10
Tab == 9

\* the characters of the strings escaped here: a letter, e-acute and the
\* characters the shell treats specially
PathChars ==
    {97, 233, SingleQuote, DoubleQuote, Backslash, Dollar, Backtick, Space,
     Newline, Tab}

\* a variant that escapes a single quote by a backslash inside the quotes
QuoteReplacementBackslash == <<Backslash, SingleQuote>>

\* '"'"' : end quote, double-quoted single quote, start quote
QuoteReplacement ==
    <<SingleQuote, DoubleQuote, SingleQuote, DoubleQuote, SingleQuote>>

\* path.replace("'", replacement)
RECURSIVE ReplaceQuotes(_)
ReplaceQuotes(path) ==
    IF path = <<>> THEN <<>>
    ELSE (IF Head(path) = SingleQuote THEN QuoteReplacement ELSE <<Head(path)>>)
         \o ReplaceQuotes(Tail(path))

escape_for_shell_display(path) ==
    IF path = <<>> THEN <<SingleQuote, SingleQuote>>
    ELSE IF \E k \in 1..Len(path) : path[k] = SingleQuote
         THEN <<SingleQuote>> \o ReplaceQuotes(path) \o <<SingleQuote>>
         ELSE <<SingleQuote>> \o path \o <<SingleQuote>>

InitEscape ==
    /\ display_path \in SeqsUpTo(PathChars, MaxPathChars)
    /\ escaped = <<>>
    /\ file_list = <<>>
    /\ MainIdle
    /\ ListIdle
    /\ ExtendIdle
    /\ SinkIdle
    /\ pc = "escaping"
    /\ image = <<>>
    /\ image_size = 0
    /\ block_size = 1
    /\ min_extent_size = 1
    /\ hash_mod = HashMod
    /\ ScanIdle
    /\ files = <<>>
    /\ matches = <<>>
    /\ file_count = 0
    /\ sequence = <<>>
    /\ image_ranges = <<>>
    /\ directives = <<>>
    /\ embedded = <<>>
    /\ script_text = <<>>
    /\ artifact = <<>>
    /\ lookup_offset = 0
    /\ mapped = ValueError

\* the call escape_for_shell_display(display_path)
EscapeForShellDisplay ==
    /\ pc = "escaping"
    /\ escaped' = escape_for_shell_display(display_path)
    /\ pc' = "escaped"
    /\ UNCHANGED <<listVars, extendVars, sinkVars,
                   image, image_size, block_size, min_extent_size, hash_mod,
                   files, matches, file_count, sequence, image_ranges,
                   directives, embedded, wrapVars, mapVars, scanVars,
                   display_path, mainVars>>

NextEscape == EscapeForShellDisplay

SpecEscape == InitEscape /\ [][NextEscape]_vars

\* characters that end a word or start an expansion, a comment or a
\* pattern when they stand unquoted
UnquotedSpecial ==
    {Space, Newline, Tab, Dollar, Backtick, 35, 38, 40, 41, 42, 59, 60, 62,
     63, 91, 124, 126}

\* POSIX sh quote removal over one word, read from position i in the given
\* quoting mode: [ok, value]; ok = FALSE when the text is not one literal
\* word (unquoted separator or expansion, unterminated quote)
RECURSIVE ShellWord(_, _, _, _)
ShellWord(text, i, mode, acc) ==
    IF i > Len(text)
    THEN [ok |-> mode = "plain", value |-> acc]
    ELSE LET ch == text[i]
         IN  CASE mode = "single" ->
                    IF ch = SingleQuote THEN ShellWord(text, i + 1, "plain", acc)
                    ELSE ShellWord(text, i + 1, "single", Append(acc, ch))
               [] mode = "double" ->
                    IF ch = DoubleQuote THEN ShellWord(text, i + 1, "plain", acc)
                    ELSE IF ch \in {Dollar, Backtick}
                         THEN [ok |-> FALSE, value |-> acc]
                    ELSE IF ch = Backslash /\ i < Len(text)
                            /\ text[i + 1] \in {Dollar, Backtick, DoubleQuote,
                                                Backslash}
                         THEN ShellWord(text, i + 2, "double",
                                        Append(acc, text[i + 1]))
                    ELSE IF ch = Backslash /\ i < Len(text)
                            /\ text[i + 1] = Newline
                         THEN ShellWord(text, i + 2, "double", acc)
                    ELSE ShellWord(text, i + 1, "double", Append(acc, ch))
               [] OTHER ->
                    IF ch = SingleQuote THEN ShellWord(text, i + 1, "single", acc)
                    ELSE IF ch = DoubleQuote
                         THEN ShellWord(text, i + 1, "double", acc)
                    ELSE IF ch = Backslash
                         THEN IF i = Len(text) THEN [ok |-> FALSE, value |-> acc]
                              ELSE IF text[i + 1] = Newline
                                   THEN ShellWord(text, i + 2, "plain", acc)
                                   ELSE ShellWord(text, i + 2, "plain",
                                                  Append(acc, text[i + 1]))
                    ELSE IF ch \in UnquotedSpecial
                         THEN [ok |-> FALSE, value |-> acc]
                    ELSE ShellWord(text, i + 1, "plain", Append(acc, ch))

\* C18: for every string without NUL, the result of
\* escape_for_shell_display read as one word under POSIX sh quoting rules is
\* exactly the string.
C18_ShellQuotingRoundTrip ==
    pc = "escaped" =>
        ShellWord(escaped, 1, "plain", <<>>) = [ok |-> TRUE, value |-> display_path]

\* a string with a single quote next to a backslash and a dollar sign
C18_Witness ==
    /\ pc = "escaped"
    /\ display_path = <<Backslash, SingleQuote, Dollar>>

(***************************************************************************)
(* Path validation of process_file.  A path string is a sequence of         *)
(* one-character strings.  The working directory is /w; the file system     *)
(* holds the regular files /a, /w/a and /w/w/a and the directories /, /w    *)
(* and /w/w, and no symbolic links.                                         *)
(***************************************************************************)
Slash == "/"
Dot == "."
DotDot == <<Dot, Dot>>

\* Path.cwd() as a string
cwd == <<Slash, "w">>

\* str.split('/') from position i on, cur being the component under way
RECURSIVE SplitFrom(_, _, _)
SplitFrom(path, i, cur) ==
    IF i > Len(path) THEN <<cur>>
    ELSE IF path[i] = Slash THEN <<cur>> \o SplitFrom(path, i + 1, <<>>)
         ELSE SplitFrom(path, i + 1, Append(cur, path[i]))

Split(path) == SplitFrom(path, 1, <<>>)

\* '/'.join(comps)
RECURSIVE JoinSlash(_)
JoinSlash(comps) ==
    IF comps = <<>> THEN <<>>
    ELSE IF Len(comps) = 1 THEN comps[1]
         ELSE comps[1] \o <<Slash>> \o JoinSlash(Tail(comps))

\* number of slashes (0 to 3) the path starts with
LeadingSlashes(path) ==
    IF Len(path) >= 3 /\ SubSeq(path, 1, 3) = <<Slash, Slash, Slash>> THEN 3
    ELSE IF Len(path) >= 2 /\ SubSeq(path, 1, 2) = <<Slash, Slash>> THEN 2
    ELSE IF Len(path) >= 1 /\ path[1] = Slash THEN 1
    ELSE 0

\* initial_slashes of posixpath.normpath: two slashes are kept, three or
\* more count as one
InitialSlashes(path) ==
    IF LeadingSlashes(path) = 2 THEN 2
    ELSE IF LeadingSlashes(path) = 0 THEN 0 ELSE 1

\* the loop of posixpath.normpath over the components
RECURSIVE NormLoop(_, _, _)
NormLoop(comps, new_comps, initial_slashes) ==
    IF comps = <<>> THEN new_comps
    ELSE LET comp == Head(comps)
             rest == Tail(comps)
         IN  IF comp = <<>> \/ comp = <<Dot>>
             THEN NormLoop(rest, new_comps, initial_slashes)
             ELSE IF \/ comp # DotDot
                     \/ (initial_slashes = 0 /\ new_comps = <<>>)
                     \/ (new_comps # <<>> /\ new_comps[Len(new_comps)] = DotDot)
                  THEN NormLoop(rest, Append(new_comps, comp), initial_slashes)
                  ELSE IF new_comps # <<>>
                       THEN NormLoop(rest, SubSeq(new_comps, 1, Len(new_comps) - 1),
                                     initial_slashes)
                       ELSE NormLoop(rest, new_comps, initial_slashes)

\* os.path.normpath
normpath(path) ==
    IF path = <<>> THEN <<Dot>>
    ELSE LET initial_slashes == InitialSlashes(path)
             joined == [k \in 1..initial_slashes |-> Slash]
                       \o JoinSlash(NormLoop(Split(path), <<>>, initial_slashes))
         IN  IF joined = <<>> THEN <<Dot>> ELSE joined

\* os.path.join(cwd, path)
JoinCwd(path) ==
    IF LeadingSlashes(path) > 0 THEN path ELSE cwd \o <<Slash>> \o path

\* os.path.abspath
abspath(path) == normpath(JoinCwd(path))

\* pathlib.Path(path): the root ("", "/" or "//") and the parts after it;
\* empty and '.' components are dropped
NonEmptyParts(comps) ==
    SelectSeq(comps, LAMBDA comp : comp # <<>> /\ comp # <<Dot>>)

Path(path) ==
    [root |-> InitialSlashes(path), parts |-> NonEmptyParts(Split(path))]

\* str(Path)
PathStr(p) ==
    IF p.root = 0 /\ p.parts = <<>> THEN <<Dot>>
    ELSE [k \in 1..p.root |-> Slash] \o JoinSlash(p.parts)

\* Path.relative_to(other): [ok, path]; ok = FALSE stands for ValueError
RelativeTo(p, other) ==
    IF /\ p.root = other.root
       /\ Len(other.parts) <= Len(p.parts)
       /\ SubSeq(p.parts, 1, Len(other.parts)) = other.parts
    THEN [ok |-> TRUE,
          path |-> [root |-> 0,
                    parts |-> SubSeq(p.parts, Len(other.parts) + 1, Len(p.parts))]]
    ELSE [ok |-> FALSE, path |-> [root |-> 0, parts |-> <<>>]]

\* the file system: kind of the node at an absolute list of parts
NodeKind(parts) ==
    IF parts \in {<<>>, << <<"w">> >>, << <<"w">>, <<"w">> >>} THEN "dir"
    ELSE IF parts \in {<< <<"a">> >>, << <<"w">>, <<"a">> >>,
                       << <<"w">>, <<"w">>, <<"a">> >>}
         THEN "file"
         ELSE "missing"

\* contents of the regular files inside the working directory
NodeContent(parts) ==
    IF parts = << <<"w">>, <<"a">> >> THEN <<0, 1>> ELSE <<1>>

\* the node a relative path without '..' names, seen from the working
\* directory
CwdNode(relative_path) == Path(cwd).parts \o relative_path.parts

\* the characters of a path put together as one string
RECURSIVE AsString(_)
AsString(chars) ==
    IF chars = <<>> THEN "" ELSE Head(chars) \o AsString(Tail(chars))

\* the validation at the head of process_file: the exception raised
\* ("none" when the path is accepted) and the relative path
ValidatePath(file_path) ==
    LET rel == RelativeTo(Path(normpath(abspath(file_path))), Path(cwd))
        relative_path == Path(normpath(PathStr(rel.path)))
    IN  IF ~rel.ok THEN [error |-> "ValueError", relative_path |-> relative_path]
        ELSE IF \E k \in 1..Len(relative_path.parts) :
                    relative_path.parts[k] = DotDot
             THEN [error |-> "ValueError", relative_path |-> relative_path]
        ELSE IF NodeKind(CwdNode(relative_path)) = "missing"
             THEN [error |-> "FileNotFoundError", relative_path |-> relative_path]
        ELSE IF NodeKind(CwdNode(relative_path)) # "file"
             THEN [error |-> "ValueError", relative_path |-> relative_path]
        ELSE [error |-> "none", relative_path |-> relative_path]

(***************************************************************************)
(* main: process_file for each listed path, then generate_script.           *)
(* SpecMain runs it over lists of a few representative paths; SpecPath over *)
(* a list of one path, for every path string of up to MaxPathLen            *)
(* characters.                                                              *)
(***************************************************************************)
PathAlphabet == {Slash, Dot, "a", "w"}

PathStrings == SeqsUpTo(PathAlphabet, MaxPathLen)

\* a, w//a, ../a (outside the working directory), aa (missing)
ListedPaths ==
    {<<"a">>, <<"w", Slash, Slash, "a">>, <<Dot, Dot, Slash, "a">>, <<"a", "a">>}

MainImages == {<<0, 1>>, <<0>>}

\* a variant in which the statement after the loop may run before the
\* list is consumed
LoopMayEndEarly == TRUE

\* the for loop of main has consumed the whole list: process_file has been
\* called on every path read_file_list yields
ListExhausted == Len(calls) = Len(file_list)

InitRun ==
    /\ image \in MainImages
    /\ image_size = Len(image)
    /\ block_size = 1
    /\ min_extent_size = 1
    /\ hash_mod = HashMod
    /\ ScanIdle
    /\ files = <<>>
    /\ matches = <<>>
    /\ file_count = 0
    /\ pc = "processing"
    /\ sequence = <<>>
    /\ image_ranges = <<>>
    /\ directives = <<>>
    /\ embedded = <<>>
    /\ script_text = <<>>
    /\ artifact = <<>>
    /\ MapIdle
    /\ EscIdle
    /\ MainIdle
    /\ ListIdle
    /\ ExtendIdle
    /\ SinkIdle

InitMain == file_list \in SeqsUpTo(ListedPaths, MaxListLen) /\ InitRun

InitPath == file_list \in {<<path>> : path \in PathStrings} /\ InitRun

\* the matches process_file appends for an accepted path
PathMatches(relative_path) ==
    FileMatches(AsString(PathStr(relative_path)),
                NodeContent(CwdNode(relative_path)), image, block_size,
                min_extent_size)

\* one iteration of main's for loop: process_file on the next path yielded;
\* an exception leaves the try block and the process exits with status 1
ProcessNext ==
    /\ pc = "processing"
    /\ Len(calls) < Len(file_list)
    /\ LET file_path == file_list[Len(calls) + 1]
           checked == ValidatePath(file_path)
       IN  /\ calls' = Append(calls, file_path)
           /\ IF checked.error = "none"
              THEN /\ matches' = matches \o PathMatches(checked.relative_path)
                   /\ files' = Append(files,
                                 NodeContent(CwdNode(checked.relative_path)))
                   /\ file_count' = file_count + 1
                   /\ UNCHANGED <<pc, error, exit_status>>
              ELSE /\ error' = checked.error
                   /\ exit_status' = 1
                   /\ pc' = "exited"
                   /\ UNCHANGED <<matches, files, file_count>>
    /\ UNCHANGED <<listVars, extendVars, sinkVars,
                   image, image_size, block_size, min_extent_size, hash_mod,
                   sequence, image_ranges, directives, embedded, wrapVars,
                   mapVars, scanVars, escVars, file_list, generate_calls>>

\* processor.generate_script() after the for loop
GenerateAfterLast == ListExhausted /\ GenerateScript

\* KeyboardInterrupt inside the try block
Interrupt ==
    /\ pc = "processing"
    /\ error' = "KeyboardInterrupt"
    /\ exit_status' = 130
    /\ pc' = "exited"
    /\ UNCHANGED <<listVars, extendVars, sinkVars,
                   image, image_size, block_size, min_extent_size, hash_mod,
                   files, matches, file_count, sequence, image_ranges,
                   directives, embedded, wrapVars, mapVars, scanVars, escVars,
                   file_list, calls, generate_calls>>

NextMain == ProcessNext \/ GenerateAfterLast \/ Interrupt

SpecMain == InitMain /\ [][NextMain]_vars

SpecPath == InitPath /\ [][NextMain]_vars

\* process_file raised for the last path it was called with
ProcessFileRaised == error \in {"ValueError", "FileNotFoundError"}

\* the pool after process_file has returned normally for each of the paths
RECURSIVE PoolAfter(_)
PoolAfter(paths) ==
    IF paths = <<>> THEN <<>>
    ELSE PoolAfter(SubSeq(paths, 1, Len(paths) - 1))
         \o PathMatches(ValidatePath(paths[Len(paths)]).relative_path)

\* C19: process_file is called once per listed path, in list order; script
\* generation starts at most once, and only after the call for the last
\* path has returned, on the pool all calls have filled; a finished run has
\* started it; when a process_file call raises, generation is never started
\* and the process exits with status 1.
C19_GenerationAfterAllFilesProcessed ==
    /\ Len(calls) <= Len(file_list)
    /\ calls = SubSeq(file_list, 1, Len(calls))
    /\ generate_calls \in {0, 1}
    /\ generate_calls = 1 =>
          /\ calls = file_list
          /\ ~ProcessFileRaised
          /\ file_count = Len(file_list)
          /\ matches = PoolAfter(file_list)
          /\ sequence = generate_reconstruction_sequence(matches, image_size)
    /\ pc \in {"done", "failed"} => generate_calls = 1
    /\ ProcessFileRaised =>
          /\ generate_calls = 0
          /\ sequence = <<>>
          /\ pc = "exited"
          /\ exit_status = 1

\* a finished run over three accepted paths that filled the pool
C19_Witness ==
    /\ pc = "done"
    /\ Len(file_list) = 3
    /\ generate_calls = 1
    /\ Len(matches) >= 2
    /\ file_list[1] # file_list[2]

\* the absolute location a path names: its components walked from the
\* working directory, or from the root for an absolute path
RECURSIVE Walk(_, _)
Walk(comps, at) ==
    IF comps = <<>> THEN at
    ELSE LET comp == Head(comps)
         IN  IF comp = <<>> \/ comp = <<Dot>> THEN Walk(Tail(comps), at)
             ELSE IF comp = DotDot
                  THEN Walk(Tail(comps),
                            IF at = <<>> THEN at ELSE SubSeq(at, 1, Len(at) - 1))
                  ELSE Walk(Tail(comps), Append(at, comp))

Location(path) ==
    Walk(Split(path),
         IF Len(path) >= 1 /\ path[1] = Slash THEN <<>> ELSE << <<"w">> >>)

InsideCwd(at) == Len(at) >= 1 /\ at[1] = <<"w">>

\* a process_file call has just returned or raised
ProcessFileEnded ==
    /\ Len(calls) >= 1
    /\ generate_calls = 0
    /\ error # "KeyboardInterrupt"

\* the path strings for which process_file keeps to the claim of C20
KeepsClaim(file_path) ==
    LET k == Len(calls)
        at == Location(file_path)
        before == PoolAfter(SubSeq(calls, 1, k - 1))
        relative == AsString(JoinSlash(SubSeq(at, 2, Len(at))))
    IN  IF InsideCwd(at) /\ NodeKind(at) = "file"
        THEN /\ error = "none"
             /\ file_count = k
             /\ Len(matches) >= Len(before)
             /\ SubSeq(matches, 1, Len(before)) = before
             /\ \A j \in (Len(before) + 1)..Len(matches) :
                   matches[j][1] = relative
             /\ \A j \in 2..Len(at) : at[j] # DotDot
        ELSE /\ ProcessFileRaised
             /\ NodeKind(at) = "missing" /\ InsideCwd(at)
                   => error = "FileNotFoundError"
             /\ matches = before
             /\ file_count = k - 1

\* C20: process_file raises, leaving the pool and file_count as they were,
\* for a path that normalizes to a location outside the working directory,
\* to a missing node or to a node that is not a regular file; it accepts a
\* path that normalizes to a regular file inside the working directory and
\* stores its matches under the normalized relative path, without '..'.
C20_PathValidation ==
    ProcessFileEnded => KeepsClaim(calls[Len(calls)])

\* the same for every path that does not start with exactly two slashes
PathValidationButDoubleSlash ==
    (ProcessFileEnded /\ LeadingSlashes(calls[Len(calls)]) # 2)
        => KeepsClaim(calls[Len(calls)])

(***************************************************************************)
(* read_file_list on its own (SpecList).  The input stream is the sequence  *)
(* of characters the text stream delivers; a character is a one-character   *)
(* string, NUL being written "\\0".  Iterating a text stream gives its      *)
(* lines, each with its terminating line feed.                              *)
(***************************************************************************)
NUL == "\\0"
LF == "\n"
CR == "\r"

\* input_stream.read(4096)
read_size == 4096

MaxTailLen == 3

\* 0-based index of the first ch in text, -1 when there is none
IndexOf(text, ch) ==
    LET at == {i \in 1..Len(text) : text[i] = ch}
    IN  IF at = {} THEN -1
        ELSE (CHOOSE i \in at : \A j \in at : i <= j) - 1

\* a variant that forgets an unterminated last entry
TrailingEntryDropped(buffer) == <<>>

\* if buffer: yield buffer
TrailingEntry(buffer) == IF buffer # <<>> THEN <<buffer>> ELSE <<>>

\* the loop "while '\0' in buffer": the entries yielded and the buffer left
RECURSIVE SplitEntries(_)
SplitEntries(buffer) ==
    LET i == IndexOf(buffer, NUL)
    IN  IF i = -1 THEN [entries |-> <<>>, buffer |-> buffer]
        ELSE LET entry == SubSeq(buffer, 1, i)
                 rest == SplitEntries(SubSeq(buffer, i + 2, Len(buffer)))
             IN  [entries |-> (IF entry # <<>> THEN <<entry>> ELSE <<>>)
                              \o rest.entries,
                  buffer |-> rest.buffer]

\* the loop "while True" of the NUL-separated branch, the stream being at pos
RECURSIVE ReadNulSeparated(_, _, _)
ReadNulSeparated(stream, pos, buffer) ==
    LET chunk == ReadAt(stream, pos, read_size)
    IN  IF chunk = <<>> THEN TrailingEntry(buffer)
        ELSE LET split == SplitEntries(buffer \o chunk)
             IN  split.entries
                 \o ReadNulSeparated(stream, pos + Len(chunk), split.buffer)

\* iteration over the stream: its lines, line feeds included
RECURSIVE StreamLines(_)
StreamLines(text) ==
    LET i == IndexOf(text, LF)
    IN  IF text = <<>> THEN <<>>
        ELSE IF i = -1 THEN <<text>>
        ELSE <<SubSeq(text, 1, i + 1)>>
             \o StreamLines(SubSeq(text, i + 2, Len(text)))

\* line.rstrip('\n\r')
RECURSIVE RStrip(_)
RStrip(line) ==
    IF line # <<>> /\ line[Len(line)] \in {LF, CR}
    THEN RStrip(SubSeq(line, 1, Len(line) - 1))
    ELSE line

\* the loop "for line in input_stream" of the newline-separated branch
RECURSIVE ReadNewlineSeparated(_)
ReadNewlineSeparated(lines) ==
    IF lines = <<>> THEN <<>>
    ELSE LET line == RStrip(Head(lines))
         IN  (IF line # <<>> THEN <<line>> ELSE <<>>)
             \o ReadNewlineSeparated(Tail(lines))

\* list(read_file_list(input_stream, null_separated))
read_file_list(stream, nul_mode) ==
    IF nul_mode THEN ReadNulSeparated(stream, 0, <<>>)
    ELSE ReadNewlineSeparated(StreamLines(stream))

ListChars == {"a", NUL, LF, CR}

\* what comes first in the stream: nothing, or short entries
ListHeads == {<<>>, <<NUL>>, <<"a", NUL>>, <<LF>>}

\* a long run of one character then brings the text that follows to a
\* read boundary
FillerLengths == {0, read_size - 2, read_size - 1, read_size}

Filler(n) == [k \in 1..n |-> "a"]

ListInputs ==
    {head \o Filler(n) \o tail :
        head \in ListHeads, n \in FillerLengths,
        tail \in SeqsUpTo(ListChars, MaxTailLen)}

InitList ==
    /\ input_stream \in ListInputs
    /\ null_separated \in BOOLEAN
    /\ file_list = <<>>
    /\ pc = "listing"
    /\ MainIdle
    /\ ExtendIdle
    /\ SinkIdle
    /\ image = <<>>
    /\ image_size = 0
    /\ block_size = 1
    /\ min_extent_size = 1
    /\ hash_mod = HashMod
    /\ ScanIdle
    /\ files = <<>>
    /\ matches = <<>>
    /\ file_count = 0
    /\ sequence = <<>>
    /\ image_ranges = <<>>
    /\ directives = <<>>
    /\ embedded = <<>>
    /\ script_text = <<>>
    /\ artifact = <<>>
    /\ MapIdle
    /\ EscIdle

\* read_file_list(input_stream, null_separated), consumed to its end
ReadFileList ==
    /\ pc = "listing"
    /\ file_list' = read_file_list(input_stream, null_separated)
    /\ pc' = "listed"
    /\ UNCHANGED <<listVars, extendVars, sinkVars,
                   image, image_size, block_size, min_extent_size, hash_mod,
                   files, matches, file_count, sequence, image_ranges,
                   directives, embedded, wrapVars, mapVars, scanVars, escVars,
                   calls, generate_calls, error, exit_status>>

NextList == ReadFileList

SpecList == InitList /\ [][NextList]_vars

\* the positions of separator sep in text, with 0 and Len(text) + 1
Cuts(text, sep) ==
    {0, Len(text) + 1} \cup {i \in 1..Len(text) : text[i] = sep}

\* the k-th smallest of a set of numbers
Nth(S, k) == CHOOSE c \in S : Cardinality({b \in S : b < c}) = k - 1

\* the runs of text between separators, in order (the last one is the
\* unterminated trailing run)
Runs(text, sep) ==
    LET cuts == Cuts(text, sep)
    IN  [k \in 1..(Cardinality(cuts) - 1) |->
            SubSeq(text, Nth(cuts, k) + 1, Nth(cuts, k + 1) - 1)]

\* a run without the line feeds and carriage returns at its end
WithoutTrailingNewlines(run) ==
    LET IsNewline(i) == run[i] \in {LF, CR}
        ends == {n \in 0..Len(run) :
                    /\ n = 0 \/ ~IsNewline(n)
                    /\ \A j \in (n + 1)..Len(run) : IsNewline(j)}
    IN  SubSeq(run, 1, CHOOSE n \in ends : TRUE)

NonEmptyEntries(entries) == SelectSeq(entries, LAMBDA entry : entry # <<>>)

\* C21: read_file_list yields exactly the non-empty entries of its input, in
\* input order: in NUL-separated mode the runs between NULs, the
\* unterminated trailing run included, whatever read boundaries they span
\* and with their newlines; in newline mode the lines without their
\* trailing LF/CR; nothing for an empty input.
C21_ReadFileListYieldsNonEmptyEntries ==
    pc = "listed" =>
        /\ null_separated =>
              file_list = NonEmptyEntries(Runs(input_stream, NUL))
        /\ ~null_separated =>
              LET lines == Runs(input_stream, LF)
              IN  file_list = NonEmptyEntries(
                      [k \in 1..Len(lines) |-> WithoutTrailingNewlines(lines[k])])
        /\ input_stream = <<>> => file_list = <<>>
        /\ \A k \in 1..Len(file_list) : file_list[k] # <<>>

\* NUL-separated input whose second entry starts in the first 4096
\* characters and ends in the next ones, followed by an unterminated entry
\* that holds a line feed
C21_Witness ==
    /\ pc = "listed"
    /\ null_separated
    /\ Len(file_list) = 3
    /\ Len(file_list[1]) = 1
    /\ Len(file_list[2]) = read_size
    /\ \E k \in 1..Len(file_list[3]) : file_list[3][k] = LF

(***************************************************************************)
(* The sort-and-sweep step of the planner (SpecPlan).                       *)
(***************************************************************************)
\* last_end when the sweep reaches the j-th sorted match: the largest
\* image_end among the matches before it, 0 when there is none
LastEndBefore(sorted, j) ==
    LET ends == {0} \cup {sorted[i][5] : i \in 1..(j - 1)}
    IN  CHOOSE e \in ends : \A f \in ends : f <= e

\* the j-th sorted match with file_start and image_start advanced by
\* last_end - image_start when last_end lies inside its image range
TrimmedTo(m, last_end) ==
    IF m[4] < last_end /\ last_end < m[5]
    THEN <<m[1], m[2] + (last_end - m[4]), m[3], last_end, m[5]>>
    ELSE m

\* C22: the sweep discards a sorted match whose image_end is at most
\* last_end and keeps every other one, with file_start and image_start both
\* advanced by last_end - image_start when image_start < last_end <
\* image_end; every kept match has file_end - file_start = image_end -
\* image_start > 0, the kept image ranges are pairwise disjoint and strictly
\* increasing, and the plan's file entries are the kept matches in order.
C22_SweepTrimsOverlapsSymmetrically ==
    pc = "planned" =>
        LET sorted == SortedMatches(matches)
            kept == DeduplicatedMatches(matches)
            Survives(j) == sorted[j][5] > LastEndBefore(sorted, j)
            survivors == SelectSeq([j \in 1..Len(sorted) |-> j], Survives)
        IN  /\ Len(kept) = Len(survivors)
            /\ \A k \in 1..Len(survivors) :
                  kept[k] = TrimmedTo(sorted[survivors[k]],
                                      LastEndBefore(sorted, survivors[k]))
            /\ \A k \in 1..Len(kept) :
                  /\ kept[k][3] - kept[k][2] = kept[k][5] - kept[k][4]
                  /\ kept[k][5] - kept[k][4] > 0
            /\ \A j, k \in 1..Len(kept) :
                  j < k => /\ kept[j][5] <= kept[k][4]
                           /\ kept[j][4] < kept[k][4]
            /\ SelectSeq(sequence, LAMBDA e : ~IsImageEntry(e))
                 = [k \in 1..Len(kept) |-> <<kept[k][1], kept[k][2], kept[k][3]>>]

\* a plan for two matches of different files, the second of which starts
\* inside the first and ends after it, so that the sweep trims it
C22_Witness ==
    /\ pc = "planned"
    /\ Len(matches) = 2
    /\ matches[1][1] # matches[2][1]
    /\ matches[2][4] > matches[1][4]
    /\ matches[2][4] < matches[1][5]
    /\ matches[2][5] > matches[1][5]
    /\ Len(DeduplicatedMatches(matches)) = 2
    /\ DeduplicatedMatches(matches)[2][2] = matches[2][2] + 1
    /\ Len(sequence) = 3

(***************************************************************************)
(* Verify and extend on its own (SpecExtend): one call of                   *)
(* _extend_match_forward_at_offset for any file, image and pair of start    *)
(* blocks, the block after the last one included.                           *)
(***************************************************************************)
InitExtend ==
    /\ image \in SeqsUpTo(Bytes, MaxImageLen)
    /\ image_size = Len(image)
    /\ block_size \in BlockSizes
    /\ min_extent_size \in 1..(2 * block_size)
    /\ files \in {<<data>> : data \in SeqsUpTo(Bytes, MaxFileBytes)}
    /\ hash_mod = HashMod
    /\ extend_file_block
         \in 0..Len(GenerateHashesForFile(files[1], block_size))
    /\ extend_image_block
         \in 0..Len(GenerateHashesForFile(image, block_size))
    /\ extend_result = None
    /\ pc = "extending"
    /\ ScanIdle
    /\ matches = <<>>
    /\ file_count = 0
    /\ sequence = <<>>
    /\ image_ranges = <<>>
    /\ directives = <<>>
    /\ embedded = <<>>
    /\ script_text = <<>>
    /\ artifact = <<>>
    /\ MapIdle
    /\ EscIdle
    /\ file_list = <<>>
    /\ MainIdle
    /\ ListIdle
    /\ SinkIdle

\* _extend_match_forward_at_offset(file_f, image_f, file_size, image_size,
\* extend_file_block, extend_image_block, min_extent_blocks)
ExtendMatchCall ==
    /\ pc = "extending"
    /\ extend_result' =
          ExtendMatchForwardAtOffset(files[1], image, block_size,
              extend_file_block, extend_image_block,
              MinExtentBlocks(min_extent_size, block_size))
    /\ pc' = "extended"
    /\ UNCHANGED <<listVars, extend_file_block, extend_image_block, sinkVars,
                   image, image_size, block_size, min_extent_size, hash_mod,
                   files, matches, file_count, sequence, image_ranges,
                   directives, embedded, wrapVars, mapVars, scanVars, escVars,
                   mainVars>>

NextExtend == ExtendMatchCall

SpecExtend == InitExtend /\ [][NextExtend]_vars

\* the least number of blocks of bs bytes that hold n bytes
BlocksHolding(n, bs) == CHOOSE k \in 0..n : k * bs >= n /\ (k - 1) * bs < n

\* the bytes of data from block b on
FromBlock(data, b) == Slice(data, b * block_size, Len(data))

\* length of the longest common prefix of the file from extend_file_block
\* and the image from extend_image_block
ExtendBytesMatched ==
    CommonPrefix(FromBlock(files[1], extend_file_block),
                 FromBlock(image, extend_image_block))

\* C23: verify-and-extend matches the longest common prefix of the file
\* from file_start_block and the image from image_start_block, returns both
\* end blocks rounded up to the block that holds the last matching byte, and
\* returns none exactly when file_end_block - file_start_block is less than
\* min_extent_blocks.
C23_ExtendRoundsUpLongestCommonPrefix ==
    pc = "extended" =>
        LET file_end_block ==
                BlocksHolding(extend_file_block * block_size + ExtendBytesMatched,
                              block_size)
            image_end_block ==
                BlocksHolding(extend_image_block * block_size + ExtendBytesMatched,
                              block_size)
        IN  IF file_end_block - extend_file_block
                 < MinExtentBlocks(min_extent_size, block_size)
            THEN extend_result = None
            ELSE extend_result = <<file_end_block, image_end_block>>

\* a call that matched one block and a single byte of the next one and
\* counted that block on both sides
C23_Witness ==
    /\ pc = "extended"
    /\ block_size = 2
    /\ ExtendBytesMatched = 3
    /\ extend_file_block = 0
    /\ extend_image_block = 0
    /\ Len(files[1]) = 4
    /\ Len(image) = 4
    /\ extend_result = <<2, 2>>

(***************************************************************************)
(* generate_shell_wrapper statement by statement (SpecSink): the wrapper    *)
(* is built, patched and written, then each attachment range is copied in   *)
(* chunks, then the sink is flushed.  artifact is what the sink has         *)
(* received.  The attachment file holds byte x at offset x; ranges may run  *)
(* past its end.                                                            *)
(***************************************************************************)
MaxSinkRanges == 2

SinkImage == Ramp(3)

SinkTexts == {<<65>>, placeholder}

InitSink ==
    /\ image = SinkImage
    /\ image_size = Len(image)
    /\ image_ranges \in SeqsUpTo(RangesUpTo(Len(image) + 1), MaxSinkRanges)
    /\ script_text \in SinkTexts
    /\ copy_chunk_size \in ChunkSizes
    /\ wrapper_script_bytes = WrapperScriptBytes(script_text)
    /\ patch_count = 0
    /\ range_index = 0
    /\ range_remaining = 0
    /\ flushed = FALSE
    /\ artifact = <<>>
    /\ pc = "built"
    /\ block_size = 1
    /\ min_extent_size = 1
    /\ hash_mod = HashMod
    /\ ScanIdle
    /\ files = <<>>
    /\ matches = <<>>
    /\ file_count = 0
    /\ sequence = <<>>
    /\ directives = <<>>
    /\ embedded = <<>>
    /\ MapIdle
    /\ EscIdle
    /\ file_list = <<>>
    /\ MainIdle
    /\ ListIdle
    /\ ExtendIdle

\* wrapper_script_bytes.replace(placeholder, replacement, 1), after the
\* check that the placeholder is there
PatchPlaceholder ==
    /\ pc = "built"
    /\ IF Find(wrapper_script_bytes, placeholder, 0) = -1
       THEN /\ pc' = "failed"
            /\ UNCHANGED <<wrapper_script_bytes, patch_count>>
       ELSE /\ wrapper_script_bytes' =
                  ReplaceFirst(wrapper_script_bytes, placeholder,
                               Replacement(Len(wrapper_script_bytes)))
            /\ patch_count' = patch_count + 1
            /\ pc' = "patched"
    /\ UNCHANGED <<listVars, extendVars, copy_chunk_size, range_index,
                   range_remaining, flushed,
                   image, image_size, block_size, min_extent_size, hash_mod,
                   files, matches, file_count, sequence, image_ranges,
                   directives, embedded, wrapVars, mapVars, scanVars, escVars,
                   mainVars>>

\* output_buffer.write(wrapper_script_bytes)
WriteWrapper ==
    /\ pc = "patched"
    /\ artifact' = artifact \o wrapper_script_bytes
    /\ pc' = "streaming"
    /\ UNCHANGED <<listVars, extendVars, sinkVars,
                   image, image_size, block_size, min_extent_size, hash_mod,
                   files, matches, file_count, sequence, image_ranges,
                   directives, embedded, script_text, mapVars, scanVars,
                   escVars, mainVars>>

\* the for loop takes up the next range: seek and remaining
TakeRange ==
    /\ pc = "streaming"
    /\ range_remaining <= 0
    /\ range_index < Len(image_ranges)
    /\ range_index' = range_index + 1
    /\ range_remaining' =
          image_ranges[range_index + 1][2] - image_ranges[range_index + 1][1]
    /\ UNCHANGED <<pc, listVars, extendVars, wrapper_script_bytes, patch_count,
                   copy_chunk_size, flushed,
                   image, image_size, block_size, min_extent_size, hash_mod,
                   files, matches, file_count, sequence, image_ranges,
                   directives, embedded, wrapVars, mapVars, scanVars, escVars,
                   mainVars>>

\* a variant that always reads a whole chunk
ToReadWholeChunk(chunk, remaining) == chunk

\* to_read = min(chunk_size, remaining)
ToRead(chunk, remaining) == Min(chunk, remaining)

\* position of attach_f: the bytes of the range read so far follow its start
AttachPosition ==
    image_ranges[range_index][2] - range_remaining

\* one iteration of the while loop: read, write or raise IOError
CopyChunk ==
    /\ pc = "streaming"
    /\ range_remaining > 0
    /\ LET data == ReadAt(image, AttachPosition,
                          ToRead(copy_chunk_size, range_remaining))
       IN  IF data = <<>>
           THEN /\ pc' = "failed"
                /\ UNCHANGED <<artifact, range_remaining>>
           ELSE /\ artifact' = artifact \o data
                /\ range_remaining' = range_remaining - Len(data)
                /\ pc' = pc
    /\ UNCHANGED <<listVars, extendVars, wrapper_script_bytes, patch_count,
                   copy_chunk_size, range_index, flushed,
                   image, image_size, block_size, min_extent_size, hash_mod,
                   files, matches, file_count, sequence, image_ranges,
                   directives, embedded, script_text, mapVars, scanVars,
                   escVars, mainVars>>

\* a variant in which the flush may come at any time after the wrapper
FlushAnytime == TRUE

\* both loops have ended
RangesCopied == range_index = Len(image_ranges) /\ range_remaining <= 0

\* output_buffer.flush()
Flush ==
    /\ pc = "streaming"
    /\ RangesCopied
    /\ flushed' = TRUE
    /\ pc' = "wrapped"
    /\ UNCHANGED <<listVars, extendVars, wrapper_script_bytes, patch_count,
                   copy_chunk_size, range_index, range_remaining,
                   image, image_size, block_size, min_extent_size, hash_mod,
                   files, matches, file_count, sequence, image_ranges,
                   directives, embedded, wrapVars, mapVars, scanVars, escVars,
                   mainVars>>

NextSink == PatchPlaceholder \/ WriteWrapper \/ TakeRange \/ CopyChunk \/ Flush

SpecSink == InitSink /\ [][NextSink]_vars

\* the statements together write what generate_shell_wrapper writes
SinkAgreesWithWrapper ==
    pc \in {"wrapped", "failed"} =>
        artifact = PatchedWrapper(script_text)
                   \o StreamRanges(image, image_ranges, copy_chunk_size).data

\* the image bytes the sink has received
SinkData ==
    SubSeq(artifact, Len(WrapperScriptBytes(script_text)) + 1, Len(artifact))

\* the bytes of the ranges taken up before the current one, in list order,
\* followed by the bytes of the current range read so far
CopiedSoFar ==
    IF range_index = 0 THEN <<>>
    ELSE ConcatRanges(image, SubSeq(image_ranges, 1, range_index - 1))
         \o Slice(image, image_ranges[range_index][1],
                  image_ranges[range_index][2] - range_remaining)

\* the order of the sink's contents in every state
SinkOrder ==
    /\ patch_count \in {0, 1}
    /\ pc \in {"patched", "streaming", "wrapped"} => patch_count = 1
    /\ patch_count = 0 => artifact = <<>>
    /\ artifact # <<>> =>
          /\ Len(artifact) >= Len(WrapperScriptBytes(script_text))
          /\ SubSeq(artifact, 1, Len(WrapperScriptBytes(script_text)))
               = PatchedWrapper(script_text)
          /\ SinkData = CopiedSoFar
    /\ artifact = <<>> => range_index = 0 /\ ~flushed
    /\ flushed =>
          /\ range_index = Len(image_ranges)
          /\ SinkData = ConcatRanges(image, image_ranges)

\* the order of the steps: a patch comes before any write, a write only
\* adds at the end, nothing is written after the flush
SinkStepOrder ==
    /\ patch_count' # patch_count => artifact = <<>> /\ artifact' = <<>>
    /\ artifact' # artifact =>
          /\ patch_count = 1
          /\ ~flushed /\ ~flushed'
          /\ Len(artifact') > Len(artifact)
          /\ SubSeq(artifact', 1, Len(artifact)) = artifact
    /\ range_index' # range_index => range_index' = range_index + 1
    /\ flushed => flushed' /\ artifact' = artifact

\* C24: in generate_shell_wrapper the placeholder is patched exactly once
\* and before anything is written to the sink; the whole wrapper is written
\* before the first image byte; the image ranges are streamed in list
\* order; the sink is flushed only after the last image byte.
C24_PatchThenWrapperThenRangesThenFlush ==
    []SinkOrder /\ [][SinkStepOrder]_vars

\* a flushed artifact with the placeholder literal in its program text and
\* two ranges of image bytes, the second lying before the first in the image
C24_Witness ==
    /\ pc = "wrapped"
    /\ flushed
    /\ script_text = placeholder
    /\ copy_chunk_size = 1
    /\ Len(image_ranges) = 2
    /\ image_ranges[1] = <<1, 3>>
    /\ image_ranges[2] = <<0, 1>>
    /\ SinkData = <<1, 2, 0>>

\* total length of the first n ranges
RECURSIVE RangesLength(_, _)
RangesLength(ranges, n) ==
    IF n = 0 THEN 0
    ELSE RangesLength(ranges, n - 1) + (ranges[n][2] - ranges[n][1])

\* C27: each attachment range contributes exactly end - start bytes, its
\* bytes of the image, whatever the chunk size; when the image ends before
\* a range is fully copied the call ends in an I/O error and not in a
\* flush, and the sink keeps the wrapper and the bytes written before the
\* error.
C27_ExactRangeLengthsOrIOError ==
    /\ pc \in {"streaming", "wrapped", "failed"} /\ range_index > 0 =>
          /\ range_remaining >= 0
          /\ Len(SinkData) = RangesLength(image_ranges, range_index)
                             - range_remaining
    /\ pc = "wrapped" =>
          /\ flushed
          /\ Len(SinkData) = RangesLength(image_ranges, Len(image_ranges))
          /\ \A k \in 1..Len(image_ranges) :
                image_ranges[k][1] < image_ranges[k][2] =>
                    image_ranges[k][2] <= Len(image)
          /\ SinkData = ConcatRanges(image, image_ranges)
    /\ (\E k \in 1..Len(image_ranges) :
            /\ image_ranges[k][1] < image_ranges[k][2]
            /\ image_ranges[k][2] > Len(image)) => pc # "wrapped" /\ ~flushed
    /\ pc = "failed" =>
          /\ ~flushed
          /\ range_index >= 1
          /\ range_remaining > 0
          /\ image_ranges[range_index][2] > Len(image)
          /\ artifact = PatchedWrapper(script_text) \o CopiedSoFar

\* a call that copied one range, then the one byte the image holds of a
\* second range of two bytes read as one chunk, and then raised
C27_Witness ==
    /\ pc = "failed"
    /\ copy_chunk_size = 2
    /\ image_ranges = << <<0, 1>>, <<2, 4>> >>
    /\ SinkData = <<0, 2>>
    /\ range_remaining = 1
    /\ ~flushed

(***************************************************************************)
(* The copy directives of the rendered program (Spec).  A directive's       *)
(* source field stands for the path argument, which the program text holds  *)
(* as the word escape_for_shell_display makes of it.                        *)
(***************************************************************************)
\* total length of the IMAGE entries among the first n entries of the plan
ImageBytesBefore(plan, n) ==
    PlanLength(SelectSeq(SubSeq(plan, 1, n), IsImageEntry))

\* C25: the copy directives follow plan order, one for each plan entry of
\* non-zero length and none for an entry of zero length; an IMAGE entry
\* (start, end) gives copy_from_script with the concatenated offset of
\* start, which is the total length of the IMAGE entries before it, and
\* size end - start; a file entry gives copy_from_file with its path, start
\* and end - start; map_offset raises for no IMAGE entry of the plan.
C25_DirectivesFollowPlanOrder ==
    generate_calls = 1 =>
        LET rendered == SelectSeq([j \in 1..Len(sequence) |-> j],
                                  LAMBDA j : sequence[j][3] # sequence[j][2])
        IN  /\ ~RenderRaises(sequence, OffsetMapper(image_ranges))
            /\ Len(directives) = Len(rendered)
            /\ \A k \in 1..Len(rendered) :
                  LET e == sequence[rendered[k]]
                  IN  directives[k] =
                        IF IsImageEntry(e)
                        THEN [cmd |-> "copy_from_script", source |-> IMAGE,
                              offset |-> ImageBytesBefore(sequence,
                                                          rendered[k] - 1),
                              size |-> e[3] - e[2]]
                        ELSE [cmd |-> "copy_from_file", source |-> e[1],
                              offset |-> e[2], size |-> e[3] - e[2]]

\* a program that copies image bytes, then bytes of a file, then image
\* bytes again, the second time from a concatenated offset that differs
\* from the image offset
C25_Witness ==
    /\ pc = "done"
    /\ Len(directives) = 3
    /\ directives[1].cmd = "copy_from_script"
    /\ directives[2].cmd = "copy_from_file"
    /\ directives[2].offset > 0
    /\ directives[3].cmd = "copy_from_script"
    /\ directives[3].offset = directives[1].size
    /\ directives[3].offset < sequence[3][2]

(***************************************************************************)
(* Order of the matches of one file (SpecScan).                             *)
(***************************************************************************)
\* C26 as claimed: the matches process_file appends for one file are, in
\* the order of appending, non-decreasing in image_start.
C26_ImageStartsMonotonic ==
    \A j, k \in MatchIndices : j < k => matches[j][4] <= matches[k][4]

\* C26 as amended: the matches process_file appends for one file are, in
\* the order of appending, strictly increasing in file_start, each starting
\* at or after the end of the one before; their image_start follows no
\* order.
C26_FileStartsMonotonic ==
    \A k \in MatchIndices :
        k < Len(matches) =>
            /\ matches[k][2] < matches[k + 1][2]
            /\ matches[k][3] <= matches[k + 1][2]

\* a file whose second match lies earlier in the image than its first
C26_Witness ==
    /\ pc = "scanned"
    /\ Len(matches) = 2
    /\ matches[1][2] < matches[2][2]
    /\ matches[1][4] > matches[2][4]
    /\ min_extent_blocks = 2

(***************************************************************************)
(* Termination of the scan loop (SpecScanFair): the loop is sequential      *)
(* code, so an iteration that can run does run.                             *)
(***************************************************************************)
MaxFairLen == 3

InitScanFair ==
    /\ InitScan
    /\ hash_mod = HashMod
    /\ Len(image) <= MaxFairLen
    /\ Len(files[1]) <= MaxFairLen

SpecScanFair == InitScanFair /\ [][NextScan]_vars /\ WF_vars(NextScan)

\* min_extent_blocks is min_extent_size // block_size, and 1 when that is 0
MinExtentBlocksAtLeastOne ==
    /\ min_extent_blocks >= 1
    /\ min_extent_size < block_size => min_extent_blocks = 1
    /\ min_extent_size >= block_size =>
          /\ min_extent_blocks * block_size <= min_extent_size
          /\ min_extent_size < (min_extent_blocks + 1) * block_size

\* an iteration runs only below the number of file blocks and moves the
\* cursor up: by min_extent_blocks on a miss, to the match's file_end_block
\* on a match; the loop is left only at or above the number of file blocks
CursorStrictlyIncreases ==
    /\ current_block' # current_block \/ previous_block' # previous_block =>
          /\ current_block < Len(FileHashes)
          /\ current_block' > current_block
          /\ match_result' = None =>
                current_block' = current_block + min_extent_blocks
          /\ match_result' # None => current_block' = match_result'[2]
    /\ pc' # pc => current_block >= Len(FileHashes) /\ pc' = "scanned"

\* C28: the scan loop of process_file terminates for every file and image:
\* min_extent_blocks is at least 1, every iteration moves the cursor
\* strictly up, and the loop ends once the cursor has reached the number of
\* file blocks.
C28_ScanLoopTerminates ==
    /\ []MinExtentBlocksAtLeastOne
    /\ [][CursorStrictlyIncreases]_vars
    /\ <>(pc = "scanned")

\* a scan with min_extent_size below block_size that ended after a match
\* and a failed search
C28_Witness ==
    /\ pc = "scanned"
    /\ min_extent_size < block_size
    /\ match_result = None
    /\ previous_block = 1
    /\ current_block = 2
    /\ Len(matches) = 1

(***************************************************************************)
(* The byte ranges the matches and the plan name (Spec).                    *)
(***************************************************************************)
\* C29: every match in the pool names byte ranges that exist in their
\* sources, file_end <= size of the file and image_end <= image_size; hence
\* every file entry of the plan ends at or before the size of its file and
\* every plan entry stands for an image range inside [0, image_size].
C29_MatchRangesInsideSources ==
    /\ \A k \in MatchIndices :
          /\ matches[k][3] <= Len(FileData(matches[k][1]))
          /\ matches[k][5] <= image_size
    /\ pc = "done" =>
          \A k \in PlanIndices :
              /\ ~IsImageEntry(sequence[k]) =>
                    sequence[k][3] <= Len(FileData(sequence[k][1]))
              /\ EntryStart(sequence, k) >= 0
              /\ EntryStart(sequence, k) + (sequence[k][3] - sequence[k][2])
                    <= image_size

(***************************************************************************)
(* The matcher as specified (spec.md, 4.2 and 4.3), against the scan of     *)
(* process_file (SpecScan).                                                 *)
(***************************************************************************)
\* find_first_match(pattern, from): the smallest i >= from with
\* image_hashes[i..i+m] = pattern, -1 for none
FindFirstMatch(image_hashes, pattern, from) ==
    LET hits == {i \in from..(Len(image_hashes) - Len(pattern)) :
                    SubSeq(image_hashes, i + 1, i + Len(pattern)) = pattern}
    IN  IF hits = {} THEN -1 ELSE CHOOSE i \in hits : \A j \in hits : i <= j

\* verify_and_extend(file_block, image_block, min_blocks): the end blocks,
\* rounded up, of the bytes that agree from the two blocks on
VerifyAndExtend(file, img, bs, file_block, image_block, min_blocks) ==
    LET n == CommonPrefix(Slice(file, file_block * bs, Len(file)),
                          Slice(img, image_block * bs, Len(img)))
        file_end == BlocksHolding(file_block * bs + n, bs)
        image_end == BlocksHolding(image_block * bs + n, bs)
    IN  IF file_end - file_block >= min_blocks THEN <<file_end, image_end>>
        ELSE None

\* the inner loop: <<i, candidate>> for the first verified hit at or after
\* search_from, None when find_first_match finds no more
RECURSIVE InnerLoop(_, _, _, _, _, _, _, _)
InnerLoop(file, img, bs, file_hashes, image_hashes, meb, at, search_from) ==
    LET pattern == SubSeq(file_hashes, at + 1, at + meb)
        i == FindFirstMatch(image_hashes, pattern, search_from)
    IN  IF i = -1 THEN None
        ELSE LET candidate == VerifyAndExtend(file, img, bs, at, i, meb)
             IN  IF candidate # None THEN <<i, candidate>>
                 ELSE InnerLoop(file, img, bs, file_hashes, image_hashes,
                                meb, at, i + 1)

\* the outer loop from block at on: the RawMatches emitted
RECURSIVE SpecifiedMatcher(_, _, _, _, _, _, _, _)
SpecifiedMatcher(path, file, img, bs, file_hashes, image_hashes, meb, at) ==
    IF at + meb > Len(file_hashes) THEN <<>>
    ELSE LET match_found == InnerLoop(file, img, bs, file_hashes,
                                      image_hashes, meb, at, 0)
         IN  IF match_found # None
             THEN << <<path, at * bs, match_found[2][1] * bs,
                       match_found[1] * bs, match_found[2][2] * bs>> >>
                  \o SpecifiedMatcher(path, file, img, bs, file_hashes,
                                      image_hashes, meb, match_found[2][1])
             ELSE SpecifiedMatcher(path, file, img, bs, file_hashes,
                                   image_hashes, meb, at + meb)

\* C30: for every file and image the scan loop of process_file, which runs
\* while current_block < len(file_hashes) and searches all image positions
\* from 0 past failed verifications, appends the same matches in the same
\* order as the specified matcher with its bounded outer loop and its inner
\* loop restarting at i + 1; a file of fewer than min_extent_blocks blocks
\* gets no match.
C30_ScanEmitsSpecifiedMatches ==
    pc = "scanned" =>
        /\ matches = SpecifiedMatcher(FileList[1], ScannedFile, image,
                         block_size, FileHashes, ImageHashes,
                         min_extent_blocks, 0)
        /\ Len(FileHashes) < min_extent_blocks => matches = <<>>

\* a finished scan, all hashes colliding, whose first match lies at a later
\* image position than a failed verification, and whose last iteration ran
\* with fewer than min_extent_blocks blocks left
C30_Witness ==
    /\ pc = "scanned"
    /\ hash_mod = 1
    /\ min_extent_blocks = 2
    /\ Len(matches) = 1
    /\ matches[1][4] > 0
    /\ match_result = None
    /\ previous_block + min_extent_blocks > Len(FileHashes)

====
